---- MODULE Spec2Model ----
(***************************************************************************)
(* StockTracker: the portfolio aggregate, the portfolio service (single    *)
(* and batch use cases), the SQL repository and the price-refresh loop,    *)
(* as state machines.                                                      *)
(*                                                                         *)
(* Specifications:                                                         *)
(*   SpecDomain   the Portfolio aggregate driven call by call              *)
(*   SpecBatch    one AddPositionsBatch pipeline, stage by stage           *)
(*   SpecService  the service's use cases run one after another, and       *)
(*                service restarts, over the SQL repository                *)
(*   SpecConc     request tasks running the use cases concurrently         *)
(*   SpecRepo     Repository.Save statement by statement in a transaction  *)
(*   SpecUpdater  the loop of PriceUpdater.Start, its ticker, Stop and the  *)
(*                cancellation of its context; SpecUpdaterLive adds        *)
(*                fairness                                                 *)
(*   SpecFan      one concurrent fallback stage of the batch: workers,     *)
(*                result channel, closing goroutine and collector          *)
(*   SpecUpsert   two Save transactions interleaving on one database       *)
(***************************************************************************)
EXTENDS Integers, Sequences, FiniteSets, TLC

(***************************************************************************)
(* domain.Decimal: a wrapper of apd.Decimal.  A value is                   *)
(* (-1)^neg * coeff * 10^exp; coeff is kept as its decimal digits, most    *)
(* significant first, the empty sequence being zero, so that the 20-digit  *)
(* working precision never passes through a machine integer.               *)
(***************************************************************************)
Precision == 20

Zeros(n) == [i \in 1..n |-> 0]

RECURSIVE StripLeading(_)
StripLeading(s) ==
    IF s # <<>> /\ Head(s) = 0 THEN StripLeading(Tail(s)) ELSE s

RECURSIVE StripTrailing(_)
StripTrailing(s) ==
    IF s # <<>> /\ s[Len(s)] = 0
    THEN StripTrailing(SubSeq(s, 1, Len(s) - 1)) ELSE s

RECURSIVE NatDigits(_)
NatDigits(n) == IF n = 0 THEN <<>> ELSE Append(NatDigits(n \div 10), n % 10)

RECURSIVE DigitsNat(_)
DigitsNat(s) ==
    IF s = <<>> THEN 0
    ELSE DigitsNat(SubSeq(s, 1, Len(s) - 1)) * 10 + s[Len(s)]

PadLeft(s, n) == Zeros(n - Len(s)) \o s

\* big.Int.Cmp on magnitudes: -1, 0 or 1.
CmpDigits(a, b) ==
    IF Len(a) # Len(b) THEN (IF Len(a) < Len(b) THEN -1 ELSE 1)
    ELSE IF a = b THEN 0
    ELSE LET i == CHOOSE k \in 1..Len(a) :
                      a[k] # b[k] /\ \A j \in 1..(k - 1) : a[j] = b[j]
         IN  IF a[i] < b[i] THEN -1 ELSE 1

RECURSIVE AddCarry(_, _, _, _)
AddCarry(a, b, i, carry) ==
    IF i = 0 THEN (IF carry = 0 THEN <<>> ELSE <<carry>>)
    ELSE LET t == a[i] + b[i] + carry
         IN  Append(AddCarry(a, b, i - 1, t \div 10), t % 10)

\* big.Int.Add on magnitudes.
AddDigits(a, b) ==
    LET n == IF Len(a) > Len(b) THEN Len(a) ELSE Len(b)
    IN  StripLeading(AddCarry(PadLeft(a, n), PadLeft(b, n), n, 0))

RECURSIVE SubBorrow(_, _, _, _)
SubBorrow(a, b, i, borrow) ==
    IF i = 0 THEN <<>>
    ELSE LET t == a[i] - b[i] - borrow
         IN  Append(SubBorrow(a, b, i - 1, IF t < 0 THEN 1 ELSE 0),
                    IF t < 0 THEN t + 10 ELSE t)

\* big.Int.Sub on magnitudes, for a >= b.
SubDigits(a, b) ==
    LET n == Len(a)
    IN  StripLeading(SubBorrow(a, PadLeft(b, n), n, 0))

Dec(neg, coeff, exp) == [neg |-> neg, coeff |-> coeff, exp |-> exp]

NewDecimalFromInt(v) ==
    Dec(v < 0, NatDigits(IF v < 0 THEN -v ELSE v), 0)

Zero == NewDecimalFromInt(0)

IsZero(d) == d.coeff = <<>>

\* apd's Context.round under RoundHalfUp: more than Precision digits are cut
\* to Precision, the exponent taking up the difference.
RoundToPrecision(d) ==
    IF Len(d.coeff) <= Precision THEN d
    ELSE LET diff == Len(d.coeff) - Precision
             kept == SubSeq(d.coeff, 1, Precision)
             up   == d.coeff[Precision + 1] >= 5
             c    == IF up THEN AddDigits(kept, <<1>>) ELSE kept
         IN  IF Len(c) > Precision
             THEN Dec(d.neg, SubSeq(c, 1, Precision), d.exp + diff + 1)
             ELSE Dec(d.neg, c, d.exp + diff)

\* The coefficient of d at the smaller exponent s (apd's upscale).
Upscale(d, s) == IF IsZero(d) THEN <<>> ELSE d.coeff \o Zeros(d.exp - s)

Add(x, y) ==
    LET s == IF x.exp < y.exp THEN x.exp ELSE y.exp
        a == Upscale(x, s)
        b == Upscale(y, s)
        r == IF x.neg = y.neg THEN Dec(x.neg, AddDigits(a, b), s)
             ELSE IF CmpDigits(a, b) >= 0 THEN Dec(x.neg, SubDigits(a, b), s)
             ELSE Dec(y.neg, SubDigits(b, a), s)
    IN  RoundToPrecision(IF r.coeff = <<>> THEN Dec(FALSE, <<>>, s) ELSE r)

\* The main loop of apd's Context.Quo: one quotient digit per round, until
\* the remainder is zero (and adjust >= 0) or Precision digits are there.
RECURSIVE QuoLoop(_, _, _, _)
QuoLoop(dividend, divisor, quo, adjust) ==
    LET q   == dividend \div divisor
        rem == dividend % divisor
        nq  == StripLeading(Append(quo, q))
    IN  IF (rem = 0 /\ adjust >= 0) \/ Len(nq) = Precision
        THEN [quo |-> nq, rem |-> rem, adjust |-> adjust]
        ELSE QuoLoop(rem * 10, divisor, nq, adjust + 1)

RECURSIVE ScaleDividend(_, _, _)
ScaleDividend(dividend, divisor, adjust) ==
    IF dividend < divisor
    THEN ScaleDividend(dividend * 10, divisor, adjust + 1)
    ELSE [dividend |-> dividend, adjust |-> adjust]

RECURSIVE ScaleDivisor(_, _, _)
ScaleDivisor(dividend, divisor, adjust) ==
    IF dividend >= divisor * 10
    THEN ScaleDivisor(dividend, divisor * 10, adjust - 1)
    ELSE [divisor |-> divisor, adjust |-> adjust]

\* DefaultContext.Quo(x, y) for y # 0.  The operands' coefficients are taken
\* as integers (InvestedAmount and prices are short); the quotient is built
\* digit by digit.
Quo(x, y) ==
    IF IsZero(x) THEN Dec(x.neg # y.neg, <<>>, x.exp - y.exp)
    ELSE LET s1 == ScaleDividend(DigitsNat(x.coeff), DigitsNat(y.coeff), 0)
             s2 == ScaleDivisor(s1.dividend, DigitsNat(y.coeff), s1.adjust)
             r  == QuoLoop(s1.dividend, s2.divisor, <<>>, s2.adjust)
             up == r.rem # 0 /\ 2 * r.rem >= s2.divisor
             c  == IF up THEN AddDigits(r.quo, <<1>>) ELSE r.quo
             e  == x.exp - y.exp - r.adjust
         IN  IF Len(c) > Len(r.quo)
             THEN Dec(x.neg # y.neg, SubSeq(c, 1, Len(r.quo)), e + 1)
             ELSE Dec(x.neg # y.neg, c, e)

\* Decimal.Div: the error is "division by zero".
Div(x, y) ==
    IF IsZero(y) THEN [err |-> TRUE, val |-> Zero]
    ELSE [err |-> FALSE, val |-> Quo(x, y)]

\* apd's Reduce: trailing zeros of the coefficient moved into the exponent.
Reduce(d) ==
    LET c == StripTrailing(d.coeff)
    IN  IF c = <<>> THEN Dec(FALSE, <<>>, 0)
        ELSE Dec(d.neg, c, d.exp + (Len(d.coeff) - Len(c)))

\* Decimal.Equal: Cmp = 0, a comparison of values, not of representations.
Equal(x, y) == Reduce(x) = Reduce(y)

\* Decimal.String (apd's to-scientific-string): plain notation when
\* exp <= 0 and the adjusted exponent is >= -6, else one digit, a point and
\* an exponent.  The text is kept as its parts: sign, digits before and
\* after the point, and the exponent after "E" (0 when there is none).
String(d) ==
    LET ds  == IF d.coeff = <<>> THEN <<0>> ELSE d.coeff
        n   == Len(ds)
        adj == d.exp + n - 1
    IN  IF d.exp <= 0 /\ adj >= -6
        THEN IF -d.exp >= n
             THEN [neg |-> d.neg, int |-> <<0>>,
                   frac |-> Zeros(-d.exp - n) \o ds, e |-> 0]
             ELSE [neg |-> d.neg, int |-> SubSeq(ds, 1, n + d.exp),
                   frac |-> SubSeq(ds, n + d.exp + 1, n), e |-> 0]
        ELSE [neg |-> d.neg, int |-> <<ds[1]>>,
              frac |-> SubSeq(ds, 2, n), e |-> adj]

\* NewDecimalFromString on a text String produced: the digits without the
\* point are the coefficient, the exponent drops by the digits after it.
NewDecimalFromString(t) ==
    [err |-> FALSE,
     val |-> Dec(t.neg, StripLeading(t.int \o t.frac), t.e - Len(t.frac))]

(***************************************************************************)
(* The domain model: Instrument, Position, Portfolio.  Timestamps          *)
(* (LastUpdated, CreatedAt) and the descriptive instrument fields other    *)
(* than Name decide nothing below and are left out.                        *)
(***************************************************************************)
NewInstrument(isin, symbol, name) ==
    [ISIN |-> isin, Symbol |-> symbol, Name |-> name]

InstrumentIsValid(i) == i.ISIN # "" /\ i.Symbol # ""

\* NewPosition; id is the value uuid.New() returned.
NewPosition(id, instrument, investedAmount, investedCurrency) ==
    [ID |-> id, PortfolioID |-> "", Instrument |-> instrument,
     InvestedAmount |-> investedAmount, InvestedCurrency |-> investedCurrency,
     Quantity |-> Zero, CurrentPrice |-> Zero]

\* UpdatePrice without the recomputation of Quantity.
UpdatePriceKeepingQuantity(p, price) ==
    [pos |-> [p EXCEPT !.CurrentPrice = price], err |-> FALSE]

\* Position.UpdatePrice: the position after the call, and the error.
UpdatePrice(p, price) ==
    IF ~IsZero(price) /\ ~IsZero(p.InvestedAmount)
    THEN LET q == Div(p.InvestedAmount, price)
         IN  IF q.err
             THEN [pos |-> [p EXCEPT !.CurrentPrice = price], err |-> TRUE]
             ELSE [pos |-> [p EXCEPT !.CurrentPrice = price,
                                     !.Quantity = q.val],
                   err |-> FALSE]
    ELSE [pos |-> [p EXCEPT !.CurrentPrice = price], err |-> FALSE]

PositionIsValid(p) ==
    /\ p.ID # ""
    /\ InstrumentIsValid(p.Instrument)
    /\ ~IsZero(p.InvestedAmount)
    /\ p.InvestedCurrency # ""

NewPortfolio(id, name) == [ID |-> id, Name |-> name, Positions |-> <<>>]

\* The loop condition without its ISIN half.
MatchesByIDOnly(existing, pos) == existing.ID = pos.ID

\* The condition of Portfolio.AddPosition's loop: same id, or same
\* non-empty ISIN.
Matches(existing, pos) ==
    \/ existing.ID = pos.ID
    \/ (existing.Instrument.ISIN = pos.Instrument.ISIN
        /\ existing.Instrument.ISIN # "")

\* The index at which the loop of AddPosition stops, 0 when it runs out.
MatchIndex(positions, pos) ==
    IF \E i \in 1..Len(positions) : Matches(positions[i], pos)
    THEN CHOOSE i \in 1..Len(positions) :
            /\ Matches(positions[i], pos)
            /\ \A j \in 1..(i - 1) : ~Matches(positions[j], pos)
    ELSE 0

\* The merge branch replacing InvestedAmount instead of adding to it.
MergeOverwritingAmount(positions, i, pos) ==
    [positions EXCEPT
        ![i].InvestedAmount = pos.InvestedAmount,
        ![i].Quantity = Add(positions[i].Quantity, pos.Quantity),
        ![i].CurrentPrice = pos.CurrentPrice]

\* The merge branch of AddPosition on slot i.
Merge(positions, i, pos) ==
    [positions EXCEPT
        ![i].InvestedAmount = Add(positions[i].InvestedAmount,
                                  pos.InvestedAmount),
        ![i].Quantity = Add(positions[i].Quantity, pos.Quantity),
        ![i].CurrentPrice = pos.CurrentPrice]

\* Portfolio.AddPosition: the positions after the call, and the error.
AddPosition(positions, pos) ==
    IF ~PositionIsValid(pos)
    THEN [positions |-> positions, err |-> "ErrInvalidPosition"]
    ELSE LET i == MatchIndex(positions, pos)
         IN  IF i # 0
             THEN [positions |-> Merge(positions, i, pos), err |-> "nil"]
             ELSE [positions |-> Append(positions, pos), err |-> "nil"]

\* The index Portfolio.RemovePosition and GetPosition stop at, 0 when the
\* id is absent.
IndexOfID(positions, id) ==
    IF \E i \in 1..Len(positions) : positions[i].ID = id
    THEN CHOOSE i \in 1..Len(positions) :
            /\ positions[i].ID = id
            /\ \A j \in 1..(i - 1) : positions[j].ID # id
    ELSE 0

\* The removal that moves the last position into the freed slot.
RemoveAtMovingLast(positions, i) ==
    IF i = Len(positions) THEN SubSeq(positions, 1, i - 1)
    ELSE [SubSeq(positions, 1, Len(positions) - 1) EXCEPT
             ![i] = positions[Len(positions)]]

\* append(p.Positions[:i], p.Positions[i+1:]...)
RemoveAt(positions, i) ==
    SubSeq(positions, 1, i - 1) \o SubSeq(positions, i + 1, Len(positions))

RemovePosition(positions, id) ==
    LET i == IndexOfID(positions, id)
    IN  IF i # 0
        THEN [positions |-> RemoveAt(positions, i), err |-> "nil"]
        ELSE [positions |-> positions, err |-> "ErrPositionNotFound"]

\* Portfolio.UpdatePositionPrice: GetPosition, then UpdatePrice in place.
UpdatePositionPrice(positions, id, price) ==
    LET i == IndexOfID(positions, id)
    IN  IF i = 0
        THEN [positions |-> positions, err |-> "ErrPositionNotFound"]
        ELSE LET u == UpdatePrice(positions[i], price)
             IN  [positions |-> [positions EXCEPT ![i] = u.pos],
                  err |-> IF u.err THEN "failed to update price" ELSE "nil"]

(***************************************************************************)
(* The SQL repository.  A database is its three tables, each a set of     *)
(* rows with the primary key unique; the statements are those of the      *)
(* dialect.  Timestamps are left out.                                      *)
(***************************************************************************)
\* The tables the migration script of either dialect creates.
Tables == {"instruments", "portfolios", "positions"}

\* A migrated database holding no row.  schema is the dialect in use,
\* the tables that exist and the migrations goose has recorded.
EmptyDB ==
    [portfolios |-> {}, instruments |-> {}, positions |-> {},
     schema |-> [dialect |-> "postgres", tables |-> Tables,
                 applied |-> {"20240101000000_init"}]]

\* OracleDialect.Migrate returning the error of a CREATE TABLE whose
\* table exists.
MigrateWithoutSwallowing(schema) ==
    IF schema.dialect = "oracle" /\ schema.tables \cap Tables # {}
    THEN [schema |-> schema, err |-> "migrating: ORA-00955"]
    ELSE [schema |-> [schema EXCEPT !.tables = @ \cup Tables],
          err |-> "nil"]

\* Dialect.Migrate.  Postgres: goose runs the migrations it has not
\* recorded, and the script creates each table IF NOT EXISTS.  Oracle:
\* every CREATE TABLE of the script is executed; the one of a table that
\* exists fails with ORA-00955, which is swallowed.
Migrate(schema) ==
    IF schema.dialect = "postgres"
    THEN IF "20240101000000_init" \in schema.applied
         THEN [schema |-> schema, err |-> "nil"]
         ELSE [schema |-> [schema EXCEPT
                              !.tables = @ \cup Tables,
                              !.applied = @ \cup {"20240101000000_init"}],
               err |-> "nil"]
    ELSE LET errs == [t \in Tables |->
                        IF t \in schema.tables THEN "ORA-00955"
                        ELSE "nil"]
         IN  IF \E t \in Tables : errs[t] \notin {"nil", "ORA-00955"}
             THEN [schema |-> schema, err |-> "migrating"]
             ELSE [schema |-> [schema EXCEPT !.tables = @ \cup Tables],
                   err |-> "nil"]

\* Decimal.Value hands the column the text of String; a NUMERIC column
\* holds the number that text denotes, which has no positive exponent.
Numeric(d) ==
    LET v == NewDecimalFromString(String(d)).val
    IN  IF v.exp > 0 THEN Dec(v.neg, v.coeff \o Zeros(v.exp), 0) ELSE v

\* The text the database prints for a NUMERIC: plain notation.
NumericText(n) ==
    LET ds == IF n.coeff = <<>> THEN <<0>> ELSE n.coeff
        k  == Len(ds)
    IN  IF -n.exp >= k
        THEN [neg |-> n.neg, int |-> <<0>>,
              frac |-> Zeros(-n.exp - k) \o ds, e |-> 0]
        ELSE [neg |-> n.neg, int |-> SubSeq(ds, 1, k + n.exp),
              frac |-> SubSeq(ds, k + n.exp + 1, k), e |-> 0]

\* Decimal.Scan of the text a NUMERIC column returns.
Scan(n) == NewDecimalFromString(NumericText(n)).val

\* INSERT INTO portfolios ... ON CONFLICT (id) DO UPDATE SET name, ...
UpsertPortfolio(d, p) ==
    [d EXCEPT !.portfolios =
        {r \in d.portfolios : r.id # p.ID}
        \cup {[id |-> p.ID, name |-> p.Name]}]

\* INSERT INTO instruments ... ON CONFLICT (isin) DO UPDATE SET symbol,
\* name.
UpsertInstrumentOverwriting(d, i) ==
    [d EXCEPT !.instruments =
        {r \in d.instruments : r.isin # i.ISIN}
        \cup {[isin |-> i.ISIN, symbol |-> i.Symbol, name |-> i.Name]}]

\* INSERT INTO instruments ... ON CONFLICT (isin) DO NOTHING, and the
\* Oracle dialect's insert of an ISIN it has counted no row of.
UpsertInstrument(d, i) ==
    IF \E r \in d.instruments : r.isin = i.ISIN
    THEN d
    ELSE [d EXCEPT !.instruments =
            d.instruments
            \cup {[isin |-> i.ISIN, symbol |-> i.Symbol, name |-> i.Name]}]

\* An upsert of a position adding the amount to the one of the row
\* already there.
UpsertPositionAccumulating(d, pos) ==
    IF \E r \in d.positions : r.id = pos.ID
    THEN [d EXCEPT !.positions =
            {IF r.id = pos.ID
             THEN [r EXCEPT !.invested_amount =
                              Add(@, Numeric(pos.InvestedAmount))]
             ELSE r : r \in d.positions}]
    ELSE [d EXCEPT !.positions =
            d.positions
            \cup {[id |-> pos.ID, portfolio_id |-> pos.PortfolioID,
                   instrument_isin |-> pos.Instrument.ISIN,
                   invested_amount |-> Numeric(pos.InvestedAmount),
                   invested_currency |-> pos.InvestedCurrency,
                   quantity |-> Numeric(pos.Quantity),
                   current_price |-> Numeric(pos.CurrentPrice)]}]

\* INSERT INTO positions ... ON CONFLICT (id) DO UPDATE SET
\* invested_amount, quantity, current_price, last_updated, portfolio_id:
\* a row already there keeps its instrument_isin and invested_currency.
UpsertPosition(d, pos) ==
    IF \E r \in d.positions : r.id = pos.ID
    THEN [d EXCEPT !.positions =
            {IF r.id = pos.ID
             THEN [r EXCEPT !.invested_amount = Numeric(pos.InvestedAmount),
                            !.quantity = Numeric(pos.Quantity),
                            !.current_price = Numeric(pos.CurrentPrice),
                            !.portfolio_id = pos.PortfolioID]
             ELSE r : r \in d.positions}]
    ELSE [d EXCEPT !.positions =
            d.positions
            \cup {[id |-> pos.ID, portfolio_id |-> pos.PortfolioID,
                   instrument_isin |-> pos.Instrument.ISIN,
                   invested_amount |-> Numeric(pos.InvestedAmount),
                   invested_currency |-> pos.InvestedCurrency,
                   quantity |-> Numeric(pos.Quantity),
                   current_price |-> Numeric(pos.CurrentPrice)]}]

\* Save's "Ensure portfolio ID is set", done on the first k positions.
Stamp(p, k) ==
    [p EXCEPT !.Positions =
        [i \in 1..Len(p.Positions) |->
            IF i <= k THEN [p.Positions[i] EXCEPT !.PortfolioID = p.ID]
            ELSE p.Positions[i]]]

\* The statements of Save from position i on, all succeeding.
RECURSIVE SavePositions(_, _, _)
SavePositions(d, p, i) ==
    IF i > Len(p.Positions) THEN d
    ELSE SavePositions(
            UpsertPosition(UpsertInstrument(d, p.Positions[i].Instrument),
                           [p.Positions[i] EXCEPT !.PortfolioID = p.ID]),
            p, i + 1)

\* The rows after a Save of p that committed.
SaveRows(d, p) == SavePositions(UpsertPortfolio(d, p), p, 1)

\* WithTx's rollback applying what the transaction had written.
RollbackKeepingWrites(committed, work) == work

\* WithTx after fn returned an error, or Commit did: the rows are the
\* committed ones.
Rollback(committed, work) == committed

\* The position FindByID builds from a row of positions joined to its
\* instrument.
PositionOfRow(d, r) ==
    LET i == CHOOSE x \in d.instruments : x.isin = r.instrument_isin
    IN  [ID |-> r.id, PortfolioID |-> r.portfolio_id,
         Instrument |-> NewInstrument(i.isin, i.symbol, i.name),
         InvestedAmount |-> Scan(r.invested_amount),
         InvestedCurrency |-> r.invested_currency,
         Quantity |-> Scan(r.quantity),
         CurrentPrice |-> Scan(r.current_price)]

\* Repository.FindByID.  The query fixes no order of the rows: the
\* positions found are kept as a set.
FindByID(d, id) ==
    IF \E r \in d.portfolios : r.id = id
    THEN LET pr == CHOOSE r \in d.portfolios : r.id = id
         IN  [err |-> "nil", ID |-> pr.id, Name |-> pr.name,
              Positions |-> {PositionOfRow(d, r) :
                               r \in {x \in d.positions :
                                        x.portfolio_id = id}}]
    ELSE [err |-> "portfolio not found", ID |-> "", Name |-> "",
          Positions |-> {}]

\* Repository.Delete: the positions of the portfolio, then its row.
Delete(d, id) ==
    [d EXCEPT !.positions = {r \in d.positions : r.portfolio_id # id},
              !.portfolios = {r \in d.portfolios : r.id # id}]

\* Delete of the in-memory PortfolioRepository, the stored portfolios
\* being the map's entries: an id that is no key is an error.
MemoryDelete(d, id) ==
    IF \E r \in d.portfolios : r.id = id
    THEN [db |-> Delete(d, id), err |-> "nil"]
    ELSE [db |-> d, err |-> "portfolio not found"]

(***************************************************************************)
(* State.                                                                  *)
(***************************************************************************)
VARIABLES
    portfolio,  \* the aggregate: PortfolioService.defaultPortfolio
    nextId,     \* how many ids uuid.New has handed out
    call,       \* the last completed call: operation, argument, error, and
                \* the positions and portfolio id it found
    calls,      \* how many calls have been made
    db,         \* the committed rows of portfolios, instruments, positions
    tx,         \* Repository.Save in flight: its transaction
    batch,      \* AddPositionsBatch in flight: its locals
    tasks       \* the request tasks: position in the use case, and locals

vars == <<portfolio, nextId, call, calls, db, tx, batch, tasks>>

MaxCalls == 3

\* The n-th id uuid.New().String() hands out.
UUID(n) == "u" \o ToString(n)

ISINs == {"US123", "US456"}
PositionIDs == {"p1", "p2"}

\* What a caller asks for: an amount to invest, and the price the position
\* is given.  1000 at 100 and 500 at 125 are the merge scenario of the
\* domain tests; a zero price leaves the quantity alone; no caller checks
\* the sign of the amount, and -1000 is a non-zero amount.
Orders == {[amount |-> 1000, price |-> 100],
           [amount |-> 500, price |-> 125],
           [amount |-> 500, price |-> 0],
           [amount |-> -1000, price |-> 100]}
Prices == {100, 125, 0}

NoCall == [op |-> "none", arg |-> <<>>, err |-> "nil", before |-> <<>>,
           id |-> ""]

NoTx == [pc |-> "none"]
NoBatch == [pc |-> "idle"]
NoTasks == <<>>

(***************************************************************************)
(* SpecDomain: a portfolio built by NewPortfolio and driven by calls of    *)
(* AddPosition, RemovePosition and UpdatePositionPrice.  The positions     *)
(* handed to AddPosition are built the way every caller builds them,       *)
(* NewPosition then UpdatePrice, with any id (also one already held, or    *)
(* none), any ISIN, symbol, amount and currency (also the invalid ones).   *)
(***************************************************************************)
\* NewPosition, then UpdatePrice, as the service and the tests build one.
PricedPosition(id, inst, amount, currency, price) ==
    UpdatePrice(NewPosition(id, inst, amount, currency), price).pos

\* A new portfolio, or one that has had three positions added.
InitDomain ==
    /\ portfolio \in
         {NewPortfolio(UUID(1), "Test Portfolio"),
          [NewPortfolio(UUID(1), "Test Portfolio") EXCEPT
             !.Positions =
                [i \in 1..3 |->
                    PricedPosition(<<"p1", "p2", "p3">>[i],
                        NewInstrument(<<"US123", "US456", "US789">>[i],
                                      "SYM", ""),
                        NewDecimalFromInt(1000), "USD",
                        NewDecimalFromInt(100))]]}
    /\ nextId = 1
    /\ call = NoCall
    /\ calls = 0
    /\ db = EmptyDB
    /\ tx = NoTx
    /\ batch = NoBatch
    /\ tasks = NoTasks

\* The positions handed to AddPosition: every valid one, and one for each
\* way IsValid fails.
DomInputs ==
    {[id |-> id, isin |-> isin, symbol |-> "SYM", amount |-> o.amount,
      currency |-> "USD", price |-> o.price] :
        id \in PositionIDs, isin \in ISINs, o \in Orders}
    \cup {[id |-> "", isin |-> "US123", symbol |-> "SYM", amount |-> 1000,
           currency |-> "USD", price |-> 100],
          [id |-> "p1", isin |-> "", symbol |-> "SYM", amount |-> 1000,
           currency |-> "USD", price |-> 100],
          [id |-> "p1", isin |-> "US123", symbol |-> "", amount |-> 1000,
           currency |-> "USD", price |-> 100],
          [id |-> "p1", isin |-> "US123", symbol |-> "SYM", amount |-> 0,
           currency |-> "USD", price |-> 100],
          [id |-> "p1", isin |-> "US123", symbol |-> "SYM", amount |-> 1000,
           currency |-> "", price |-> 100]}

DomAddPosition ==
    /\ calls < MaxCalls
    /\ \E in \in DomInputs :
         LET pos == PricedPosition(in.id,
                        NewInstrument(in.isin, in.symbol, ""),
                        NewDecimalFromInt(in.amount), in.currency,
                        NewDecimalFromInt(in.price))
             r   == AddPosition(portfolio.Positions, pos)
         IN  /\ portfolio' = [portfolio EXCEPT !.Positions = r.positions]
             /\ call' = [op |-> "AddPosition", arg |-> pos, err |-> r.err,
                         before |-> portfolio.Positions, id |-> portfolio.ID]
    /\ calls' = calls + 1
    /\ UNCHANGED <<nextId, db, tx, batch, tasks>>

DomRemovePosition ==
    /\ calls < MaxCalls
    /\ \E id \in PositionIDs :
         LET r == RemovePosition(portfolio.Positions, id)
         IN  /\ portfolio' = [portfolio EXCEPT !.Positions = r.positions]
             /\ call' = [op |-> "RemovePosition", arg |-> id, err |-> r.err,
                         before |-> portfolio.Positions, id |-> portfolio.ID]
    /\ calls' = calls + 1
    /\ UNCHANGED <<nextId, db, tx, batch, tasks>>

DomUpdatePositionPrice ==
    /\ calls < MaxCalls
    /\ \E id \in PositionIDs, price \in Prices :
         LET r == UpdatePositionPrice(portfolio.Positions, id,
                                      NewDecimalFromInt(price))
         IN  /\ portfolio' = [portfolio EXCEPT !.Positions = r.positions]
             /\ call' = [op |-> "UpdatePositionPrice",
                         arg |-> [id |-> id,
                                  price |-> NewDecimalFromInt(price)],
                         err |-> r.err,
                         before |-> portfolio.Positions, id |-> portfolio.ID]
    /\ calls' = calls + 1
    /\ UNCHANGED <<nextId, db, tx, batch, tasks>>

NextDomain ==
    \/ DomAddPosition
    \/ DomRemovePosition
    \/ DomUpdatePositionPrice

SpecDomain == InitDomain /\ [][NextDomain]_vars

(***************************************************************************)
(* SpecRepo: the SQL repository over an empty, migrated database.  Save    *)
(* runs statement by statement inside its transaction; every statement,    *)
(* BeginTx and Commit may fail.  The transaction writes to its own copy    *)
(* of the rows; other readers see the committed rows only.                 *)
(***************************************************************************)
MaxRepoCalls == 2

NoPortfolio == [ID |-> "", Name |-> "", Positions |-> <<>>]

RepoPosition(id, isin) ==
    PricedPosition(id, NewInstrument(isin, "SYM", ""),
                   NewDecimalFromInt(1000), "USD", NewDecimalFromInt(100))

\* The position lists saved: none, one, two, a position whose id was
\* stored before with another instrument, and a position whose instrument
\* carries the ISIN of another with a different symbol and name.
RepoPositionLists ==
    {<<>>,
     <<RepoPosition("p1", "US123")>>,
     <<RepoPosition("p2", "US456")>>,
     <<RepoPosition("p1", "US123"), RepoPosition("p2", "US456")>>,
     <<RepoPosition("p1", "US456")>>,
     <<[RepoPosition("p1", "US123") EXCEPT
          !.Instrument = NewInstrument("US123", "AAPL", "Apple")]>>}

RepoPortfolioIDs == {UUID(1), UUID(2)}

\* The portfolios handed to Save; two portfolios may carry one name.
RepoInputs ==
    {[NewPortfolio(h.id, h.name) EXCEPT !.Positions = ps] :
        h \in {[id |-> UUID(1), name |-> "default"],
               [id |-> UUID(1), name |-> "renamed"],
               [id |-> UUID(2), name |-> "default"]},
        ps \in RepoPositionLists}

\* A database of either dialect before its first migration.
InitRepo ==
    /\ portfolio = NoPortfolio
    /\ nextId = 2
    /\ call = NoCall
    /\ calls = 0
    /\ db \in {[EmptyDB EXCEPT !.schema = [dialect |-> d, tables |-> {},
                                           applied |-> {}]] :
                 d \in {"postgres", "oracle"}}
    /\ tx = NoTx
    /\ batch = NoBatch
    /\ tasks = NoTasks

\* A statement of Save, or Commit, failed: WithTx rolls back and Save
\* returns the error.
RepoFail(err) ==
    /\ db' = Rollback(db, tx.work)
    /\ call' = [op |-> "Save", arg |-> tx.p, err |-> err,
                before |-> tx.before, id |-> tx.p.ID]
    /\ tx' = NoTx

\* Dialect.Migrate, at startup and run again later.
RepoMigrate ==
    /\ tx.pc = "none"
    /\ LET m == Migrate(db.schema)
       IN  /\ db' = [db EXCEPT !.schema = m.schema]
           /\ call' = [op |-> "Migrate", arg |-> db.schema.dialect,
                       err |-> m.err, before |-> db, id |-> ""]
    /\ UNCHANGED <<portfolio, nextId, calls, tx, batch, tasks>>

\* Save is called: WithTx begins the transaction.
RepoBeginTx ==
    /\ tx.pc = "none"
    /\ db.schema.tables = Tables
    /\ calls < MaxRepoCalls
    /\ \E p \in RepoInputs :
         \/ /\ tx' = [pc |-> "portfolio", p |-> p, work |-> db, i |-> 1,
                      before |-> db]
            /\ UNCHANGED call
         \/ /\ tx' = NoTx
            /\ call' = [op |-> "Save", arg |-> p,
                        err |-> "begin transaction", before |-> db,
                        id |-> p.ID]
    /\ calls' = calls + 1
    /\ UNCHANGED <<portfolio, nextId, db, batch, tasks>>

RepoUpsertPortfolio ==
    /\ tx.pc = "portfolio"
    /\ \/ /\ tx' = [tx EXCEPT
                      !.work = UpsertPortfolio(tx.work, tx.p),
                      !.pc = IF Len(tx.p.Positions) = 0 THEN "commit"
                             ELSE "instrument"]
          /\ UNCHANGED <<db, call>>
       \/ RepoFail("upsert portfolio")
    /\ UNCHANGED <<portfolio, nextId, calls, batch, tasks>>

RepoUpsertInstrument ==
    /\ tx.pc = "instrument"
    /\ \/ /\ tx' = [tx EXCEPT
                      !.work = UpsertInstrument(tx.work,
                                   tx.p.Positions[tx.i].Instrument),
                      !.p = Stamp(tx.p, tx.i),
                      !.pc = "position"]
          /\ UNCHANGED <<db, call>>
       \/ RepoFail("upsert instrument")
    /\ UNCHANGED <<portfolio, nextId, calls, batch, tasks>>

RepoUpsertPosition ==
    /\ tx.pc = "position"
    /\ \/ /\ tx' = [tx EXCEPT
                      !.work = UpsertPosition(tx.work, tx.p.Positions[tx.i]),
                      !.i = tx.i + 1,
                      !.pc = IF tx.i = Len(tx.p.Positions) THEN "commit"
                             ELSE "instrument"]
          /\ UNCHANGED <<db, call>>
       \/ RepoFail("upsert position")
    /\ UNCHANGED <<portfolio, nextId, calls, batch, tasks>>

RepoCommit ==
    /\ tx.pc = "commit"
    /\ \/ /\ db' = tx.work
          /\ call' = [op |-> "Save", arg |-> tx.p, err |-> "nil",
                      before |-> tx.before, id |-> tx.p.ID]
          /\ tx' = NoTx
       \/ RepoFail("commit transaction")
    /\ UNCHANGED <<portfolio, nextId, calls, batch, tasks>>

\* FindByID, also from another connection while a Save is in flight.
RepoFindByID ==
    /\ calls < MaxRepoCalls
    /\ db.schema.tables = Tables
    /\ \E id \in RepoPortfolioIDs :
         LET f == FindByID(db, id)
         IN  call' = [op |-> "FindByID", arg |-> id, err |-> f.err,
                      before |-> db, id |-> f.ID]
    /\ calls' = calls + 1
    /\ UNCHANGED <<portfolio, nextId, db, tx, batch, tasks>>

\* Delete, its transaction committing or not, and the Delete of the
\* in-memory implementation on the same stored portfolios.
RepoDelete ==
    /\ tx.pc = "none"
    /\ calls < MaxRepoCalls
    /\ db.schema.tables = Tables
    /\ \E id \in RepoPortfolioIDs :
         \/ /\ db' = Delete(db, id)
            /\ call' = [op |-> "Delete", arg |-> id, err |-> "nil",
                        before |-> db, id |-> id]
         \/ /\ db' = Rollback(db, Delete(db, id))
            /\ call' = [op |-> "Delete", arg |-> id,
                        err |-> "failed to delete", before |-> db,
                        id |-> id]
         \/ /\ db' = MemoryDelete(db, id).db
            /\ call' = [op |-> "Delete", arg |-> id,
                        err |-> MemoryDelete(db, id).err, before |-> db,
                        id |-> id]
    /\ calls' = calls + 1
    /\ UNCHANGED <<portfolio, nextId, tx, batch, tasks>>

NextRepo ==
    \/ RepoMigrate
    \/ RepoBeginTx
    \/ RepoUpsertPortfolio
    \/ RepoUpsertInstrument
    \/ RepoUpsertPosition
    \/ RepoCommit
    \/ RepoFindByID
    \/ RepoDelete

SpecRepo == InitRepo /\ [][NextRepo]_vars

(***************************************************************************)
(* The market-data provider, as the service sees it: a search answers     *)
(* with an error or with the instrument of the ISIN, a quote with an       *)
(* error or with a price.  Which answer comes is the provider's choice.    *)
(***************************************************************************)
Symbols == {"SYM", "AAPL"}
QuotePrices == {100, 125}

\* domain.NewDecimalFromString(quote.Price.String())
ParseQuotePrice(price) ==
    NewDecimalFromString(String(NewDecimalFromInt(price)))

\* The orders in which a map with the keys S may be ranged over.
Orderings(S) ==
    {s \in [1..Cardinality(S) -> S] :
        \A i, j \in 1..Cardinality(S) : s[i] = s[j] => i = j}

\* How often isin is asked for in a request list.
Asked(requests, isin) ==
    Cardinality({i \in 1..Len(requests) : requests[i].ISIN = isin})

\* The answers to the searches for the ISINs of a request list, as the
\* two maps both search helpers build from them: an ISIN asked for once
\* is in exactly one map, an ISIN asked for several times may have got an
\* error for one request and an instrument for another and be in both.
SearchAnswers(requests) ==
    LET asked == {requests[i].ISIN : i \in 1..Len(requests)}
    IN  {[instruments |-> [isin \in found |->
                             NewInstrument(isin, sym[isin], "")],
          errors |-> errs] :
            errs \in SUBSET asked,
            found \in SUBSET asked,
            sym \in [asked -> Symbols]}

SearchAnswered(requests, a) ==
    LET asked == {requests[i].ISIN : i \in 1..Len(requests)}
    IN  /\ a.errors \cup DOMAIN a.instruments = asked
        /\ \A isin \in a.errors \cap DOMAIN a.instruments :
              Asked(requests, isin) >= 2

\* searchInstrumentsBatch and searchInstrumentsConcurrent.
searchInstruments(requests) ==
    {a \in SearchAnswers(requests) : SearchAnswered(requests, a)}

\* The symbols of the instruments found, and the ISINs that carry each.
SymbolsOf(instruments) ==
    {instruments[isin].Symbol : isin \in DOMAIN instruments}

ISINsOfSymbol(instruments, symbol) ==
    {isin \in DOMAIN instruments : instruments[isin].Symbol = symbol}

\* The answers to the quote requests, one request per instrument found,
\* so a symbol several instruments share is asked for several times and
\* may be in both maps.
QuoteAnswers(instruments) ==
    LET syms == SymbolsOf(instruments)
    IN  {[quotes |-> [s \in ok |-> price[s]], errors |-> errs] :
            errs \in SUBSET syms,
            ok \in SUBSET syms,
            price \in [syms -> QuotePrices]}

QuotesAnswered(instruments, q) ==
    /\ q.errors \cup DOMAIN q.quotes = SymbolsOf(instruments)
    /\ \A s \in q.errors \cap DOMAIN q.quotes :
          Cardinality(ISINsOfSymbol(instruments, s)) >= 2

\* getQuotesBatch and getQuotesConcurrent.
getQuotes(instruments) ==
    {q \in QuoteAnswers(instruments) : QuotesAnswered(instruments, q)}

\* The symbolToISIN maps the loop over instruments can leave: for each
\* symbol the ISIN written last.
SymbolToISIN(instruments) ==
    {m \in [SymbolsOf(instruments) -> DOMAIN instruments] :
        \A s \in SymbolsOf(instruments) : instruments[m[s]].Symbol = s}

\* requestMap keeping the first request of each ISIN.
RequestMapFirst(requests) ==
    [isin \in {requests[i].ISIN : i \in 1..Len(requests)} |->
        requests[CHOOSE i \in 1..Len(requests) :
                    /\ requests[i].ISIN = isin
                    /\ \A j \in 1..(i - 1) : requests[j].ISIN # isin]]

\* requestMap: the last request of each ISIN.
RequestMap(requests) ==
    [isin \in {requests[i].ISIN : i \in 1..Len(requests)} |->
        requests[CHOOSE i \in 1..Len(requests) :
                    /\ requests[i].ISIN = isin
                    /\ \A j \in (i + 1)..Len(requests) :
                          requests[j].ISIN # isin]]

\* delete(requestMap, isin) for every isin of a set.
Without(m, keys) == [k \in DOMAIN m \ keys |-> m[k]]

FailedOf(isins, error) ==
    [i \in 1..Len(isins) |-> [ISIN |-> isins[i], Error |-> error]]

\* The commit stage after a failed Save, leaving Successful as it was.
CommitFailedKeepingSuccessful(successful, failed) ==
    [Successful |-> successful,
     Failed |-> failed \o FailedOf([i \in 1..Len(successful) |->
                                       successful[i].ISIN],
                                   "failed to save portfolio")]

\* The commit stage after a failed Save: every entry of Successful is
\* moved to Failed, and Successful is cleared.
CommitFailed(successful, failed) ==
    [Successful |-> <<>>,
     Failed |-> failed \o FailedOf([i \in 1..Len(successful) |->
                                       successful[i].ISIN],
                                   "failed to save portfolio")]

(***************************************************************************)
(* SpecBatch: one call of AddPositionsBatch on a service whose portfolio   *)
(* is empty or holds one position, stage by stage: requestMap, search,     *)
(* quotes, the assembly loop one ISIN at a time in any order, commit.      *)
(***************************************************************************)
MaxBatchLen == 2

\* The requests: valid ones in two currencies, and one that
\* Portfolio.AddPosition rejects.
BatchRequestSet ==
    {[ISIN |-> isin, InvestedAmount |-> 1000, Currency |-> "USD"] :
        isin \in ISINs}
    \cup {[ISIN |-> isin, InvestedAmount |-> 500, Currency |-> "EUR"] :
             isin \in ISINs}
    \cup {[ISIN |-> "US123", InvestedAmount |-> 0, Currency |-> "USD"]}

BatchRequests ==
    UNION {[1..n -> BatchRequestSet] : n \in 0..MaxBatchLen}

\* The portfolio of a service that has added US123 once.
HeldPortfolio ==
    [NewPortfolio(UUID(1), "default") EXCEPT
        !.Positions = <<[PricedPosition(UUID(2),
                            NewInstrument("US123", "SYM", ""),
                            NewDecimalFromInt(1000), "USD",
                            NewDecimalFromInt(100))
                         EXCEPT !.PortfolioID = UUID(1)]>>]

InitBatch ==
    /\ portfolio \in {NewPortfolio(UUID(1), "default"), HeldPortfolio}
    /\ nextId = 2
    /\ call = NoCall
    /\ calls = 0
    /\ db = SaveRows(EmptyDB, portfolio)
    /\ tx = NoTx
    /\ batch = NoBatch
    /\ tasks = NoTasks

\* if len(requests) == 0 { return result }, with every request list
\* taken for a non-empty one.
EarlyReturnNever(requests) == FALSE

\* if len(requests) == 0 { return result }
EarlyReturn(requests) == Len(requests) = 0

\* if len(result.Successful) > 0, with every result taken to have
\* something in Successful.
ShouldSaveAlways(successful) == TRUE

\* if len(result.Successful) > 0 { s.repo.Save(...) }
ShouldSave(successful) == Len(successful) > 0

\* Lines 37-52: the result, the early return, isins and requestMap.
\* asked counts the calls made to the provider, cancelled is the state of
\* the caller's context, and pending the ISINs still in work when the
\* context was cancelled; quoteErrors are the symbols whose quote failed
\* and quotePending the ISINs in requestMap when the quotes were asked.
BatchBegin ==
    /\ batch.pc = "idle"
    /\ \E requests \in BatchRequests :
         batch' = [pc |-> IF EarlyReturn(requests) THEN "done" ELSE "search",
                   requests |-> requests,
                   requestMap |-> RequestMap(requests),
                   instruments |-> RequestMap(<<>>),
                   quotes |-> RequestMap(<<>>),
                   todo |-> {},
                   Successful |-> <<>>, Failed |-> <<>>,
                   assembled |-> <<>>, saves |-> 0, saveErr |-> FALSE,
                   saveCause |-> "nil", asked |-> 0,
                   cancelled |-> FALSE, pending |-> {},
                   quoteErrors |-> {}, quotePending |-> {},
                   before |-> portfolio.Positions]
    /\ UNCHANGED <<portfolio, nextId, call, calls, db, tx, tasks>>

\* The caller cancels ctx between two stages of the call.  The ISINs
\* still in work are those of the requests with no entry in Failed yet:
\* an entry of Successful is not final before the commit stage.
BatchCancel ==
    /\ batch.pc \in {"search", "quote", "assemble", "commit"}
    /\ ~batch.cancelled
    /\ batch' = [batch EXCEPT
                   !.cancelled = TRUE,
                   !.pending =
                      {batch.requests[i].ISIN : i \in 1..Len(batch.requests)}
                      \ {batch.Failed[i].ISIN : i \in 1..Len(batch.Failed)}]
    /\ UNCHANGED <<portfolio, nextId, call, calls, db, tx, tasks>>

\* Lines 55-74: the search, and the ISINs it failed for.  Under a
\* cancelled context every search returns the context's error.
BatchSearch ==
    /\ batch.pc = "search"
    /\ \E a \in searchInstruments(batch.requests) :
       \E order \in Orderings(a.errors) :
         /\ batch.cancelled => DOMAIN a.instruments = {}
         /\ batch' = [batch EXCEPT
                        !.pc = "quote",
                        !.asked = @ + 1,
                        !.instruments = a.instruments,
                        !.Failed = @ \o FailedOf(order,
                                      IF batch.cancelled
                                      THEN "context canceled"
                                      ELSE "instrument not found"),
                        !.requestMap = Without(@, a.errors)]
    /\ UNCHANGED <<portfolio, nextId, call, calls, db, tx, tasks>>

\* Lines 77-103: symbols and symbolToISIN, the quotes, and the symbols
\* they failed for, each mapped back to one ISIN.  Under a cancelled
\* context every quote request returns the context's error.
BatchQuote ==
    /\ batch.pc = "quote"
    /\ \E symbolToISIN \in SymbolToISIN(batch.instruments) :
       \E q \in getQuotes(batch.instruments) :
       \E order \in Orderings(q.errors) :
         LET failed == [i \in 1..Len(order) |-> symbolToISIN[order[i]]]
             left   == Without(batch.requestMap,
                               {failed[i] : i \in 1..Len(failed)})
         IN  /\ batch.cancelled => DOMAIN q.quotes = {}
             /\ batch' = [batch EXCEPT
                            !.pc = IF DOMAIN left = {} THEN "commit"
                                   ELSE "assemble",
                            !.asked = @ + 1,
                            !.quotes = q.quotes,
                            !.quoteErrors = q.errors,
                            !.quotePending = DOMAIN batch.requestMap,
                            !.Failed = @ \o FailedOf(failed,
                               IF batch.cancelled
                               THEN "failed to get quote: context canceled"
                               ELSE "failed to get quote"),
                            !.requestMap = left,
                            !.todo = DOMAIN left]
    /\ UNCHANGED <<portfolio, nextId, call, calls, db, tx, tasks>>

\* Lines 106-148: one round of the loop over requestMap.
BatchAssemble ==
    /\ batch.pc = "assemble"
    /\ \E isin \in batch.todo :
         LET req  == batch.requestMap[isin]
             rest == batch.todo \ {isin}
             pc   == IF rest = {} THEN "commit" ELSE "assemble"
         IN  IF \/ isin \notin DOMAIN batch.instruments
                \/ batch.instruments[isin].Symbol \notin DOMAIN batch.quotes
             THEN \* instrument == nil, or quote == nil: continue
                  /\ batch' = [batch EXCEPT !.todo = rest, !.pc = pc]
                  /\ UNCHANGED <<portfolio, nextId>>
             ELSE LET instrument == batch.instruments[isin]
                      position == NewPosition(UUID(nextId + 1), instrument,
                                     NewDecimalFromInt(req.InvestedAmount),
                                     req.Currency)
                      price == ParseQuotePrice(
                                   batch.quotes[instrument.Symbol])
                      u == UpdatePrice(position, price.val)
                      r == AddPosition(portfolio.Positions, u.pos)
                  IN  /\ nextId' = nextId + 1
                      /\ IF price.err
                         THEN /\ batch' = [batch EXCEPT
                                    !.todo = rest, !.pc = pc,
                                    !.Failed = Append(@,
                                       [ISIN |-> isin,
                                        Error |-> "failed to parse price"])]
                              /\ UNCHANGED portfolio
                         ELSE IF u.err
                         THEN /\ batch' = [batch EXCEPT
                                    !.todo = rest, !.pc = pc,
                                    !.Failed = Append(@,
                                       [ISIN |-> isin,
                                        Error |-> "failed to update price"])]
                              /\ UNCHANGED portfolio
                         ELSE IF r.err # "nil"
                         THEN /\ batch' = [batch EXCEPT
                                    !.todo = rest, !.pc = pc,
                                    !.Failed = Append(@,
                                       [ISIN |-> isin,
                                        Error |->
                                          "failed to add to portfolio"])]
                              /\ UNCHANGED portfolio
                         ELSE /\ batch' = [batch EXCEPT
                                    !.todo = rest, !.pc = pc,
                                    !.Successful = Append(@,
                                       [ISIN |-> isin,
                                        Position |-> u.pos])]
                              /\ portfolio' = [portfolio EXCEPT
                                    !.Positions = r.positions]
    /\ UNCHANGED <<call, calls, db, tx, tasks>>

\* Lines 151-165: Save when something is in Successful, and the return.
\* A Save that fails has stamped the positions it got to.  Under a
\* cancelled context Save fails with the context's error.
BatchCommit ==
    /\ batch.pc = "commit"
    /\ IF ShouldSave(batch.Successful)
       THEN \/ /\ ~batch.cancelled
               /\ db' = SaveRows(db, portfolio)
               /\ portfolio' = Stamp(portfolio, Len(portfolio.Positions))
               /\ batch' = [batch EXCEPT !.pc = "done",
                                         !.assembled = batch.Successful,
                                         !.saves = @ + 1]
            \/ \E k \in 0..Len(portfolio.Positions) :
                 LET res == CommitFailed(batch.Successful, batch.Failed)
                 IN  /\ db' = Rollback(db, SaveRows(db, portfolio))
                     /\ portfolio' = Stamp(portfolio, k)
                     /\ batch' = [batch EXCEPT
                                    !.pc = "done",
                                    !.assembled = batch.Successful,
                                    !.saves = @ + 1,
                                    !.saveErr = TRUE,
                                    !.saveCause =
                                       IF batch.cancelled
                                       THEN "context canceled"
                                       ELSE "database error",
                                    !.Successful = res.Successful,
                                    !.Failed = res.Failed]
       ELSE /\ batch' = [batch EXCEPT !.pc = "done"]
            /\ UNCHANGED <<portfolio, db>>
    /\ UNCHANGED <<nextId, call, calls, tx, tasks>>

NextBatch ==
    \/ BatchBegin
    \/ BatchCancel
    \/ BatchSearch
    \/ BatchQuote
    \/ BatchAssemble
    \/ BatchCommit

SpecBatch == InitBatch /\ [][NextBatch]_vars

(***************************************************************************)
(* SpecService: the use cases of PortfolioService called one after         *)
(* another over the SQL repository, and the service constructed again      *)
(* over the same repository (a restart).  Each action is a whole use       *)
(* case; the provider's answers and the outcome of Save are choices.       *)
(***************************************************************************)
MaxSvcCalls == 2

\* The symbol the provider's search reports for an ISIN.
SymbolFor(isin) == IF isin = "US123" THEN "SYM" ELSE "AAPL"

\* The amounts asked for; Portfolio.AddPosition rejects a zero amount.
SvcAmounts == {1000, 500, 0}

\* The outcomes of repo.Save on p: the rows, the portfolio with the ids
\* stamped, and the error.
SaveOutcomes(d, p) ==
    {[db |-> SaveRows(d, p), p |-> Stamp(p, Len(p.Positions)),
      err |-> "nil"]}
    \cup {[db |-> Rollback(d, SaveRows(d, p)), p |-> Stamp(p, k),
           err |-> "failed to save portfolio"] :
            k \in 0..Len(p.Positions)}

InitService ==
    /\ portfolio \in {NewPortfolio(UUID(1), "default"), HeldPortfolio}
    /\ nextId = 2
    /\ call = NoCall
    /\ calls = 0
    /\ db = SaveRows(EmptyDB, portfolio)
    /\ tx = NoTx
    /\ batch = NoBatch
    /\ tasks = NoTasks

\* NewPortfolioService, called once more over the same repository.
SvcNewPortfolioService ==
    /\ calls < MaxSvcCalls
    /\ LET defaultPortfolio == NewPortfolio(UUID(nextId + 1), "default")
       IN  \E s \in SaveOutcomes(db, defaultPortfolio) :
             /\ db' = s.db
             /\ portfolio' = IF s.err = "nil" THEN s.p ELSE NoPortfolio
             /\ call' = [op |-> "NewPortfolioService", arg |-> <<>>,
                         err |-> s.err, before |-> portfolio.Positions,
                         id |-> portfolio.ID]
    /\ nextId' = nextId + 1
    /\ calls' = calls + 1
    /\ UNCHANGED <<tx, batch, tasks>>

\* The calls AddPosition makes, in the order of its body.
AddPositionSteps ==
    <<"SearchByISIN", "NewPosition", "GetQuote", "NewDecimalFromString",
      "UpdatePrice", "AddPosition", "Save">>

\* The returns of AddPosition, with the position returned beside an error.
AddPositionReturnWithPosition(position, err) == <<position>>

\* return nil, fmt.Errorf(...) and return &position, nil: the position
\* returned, as a sequence of at most one element.
AddPositionReturn(position, err) ==
    IF err = "nil" THEN <<position>> ELSE <<>>

\* PortfolioService.AddPosition.  The call records the steps it ran, the
\* position it returned and the number of its calls of Save.
SvcAddPosition ==
    /\ calls < MaxSvcCalls
    /\ portfolio.ID # ""
    /\ \E isin \in ISINs, amount \in SvcAmounts :
         LET done(p, d, n, err, ran, position) ==
                 /\ portfolio' = p
                 /\ db' = d
                 /\ nextId' = n
                 /\ call' = [op |-> "AddPosition",
                             arg |-> [isin |-> isin, amount |-> amount],
                             err |-> err, before |-> portfolio.Positions,
                             id |-> portfolio.ID,
                             steps |-> SubSeq(AddPositionSteps, 1, ran),
                             pos |-> AddPositionReturn(position, err),
                             saves |-> IF ran = 7 THEN 1 ELSE 0]
         IN  \/ done(portfolio, db, nextId, "failed to find instrument",
                     1, <<>>)
             \/ done(portfolio, db, nextId + 1, "failed to get quote",
                     3, <<>>)
             \/ \E q \in QuotePrices :
                  LET position == NewPosition(UUID(nextId + 1),
                                     NewInstrument(isin, SymbolFor(isin), ""),
                                     NewDecimalFromInt(amount), "USD")
                      price == ParseQuotePrice(q)
                      u == UpdatePrice(position, price.val)
                      r == AddPosition(portfolio.Positions, u.pos)
                      added == [portfolio EXCEPT !.Positions = r.positions]
                  IN  IF price.err
                      THEN done(portfolio, db, nextId + 1,
                                "failed to parse quote price", 4, <<>>)
                      ELSE IF u.err
                      THEN done(portfolio, db, nextId + 1,
                                "failed to update position price", 5, <<>>)
                      ELSE IF r.err # "nil"
                      THEN done(portfolio, db, nextId + 1,
                                "failed to add position", 6, <<>>)
                      ELSE \E s \in SaveOutcomes(db, added) :
                             done(s.p, s.db, nextId + 1, s.err, 7, u.pos)
    /\ calls' = calls + 1
    /\ UNCHANGED <<tx, batch, tasks>>

\* PortfolioService.RemovePosition.
SvcRemovePosition ==
    /\ calls < MaxSvcCalls
    /\ portfolio.ID # ""
    /\ \E id \in {UUID(n) : n \in 1..nextId} :
         LET r == RemovePosition(portfolio.Positions, id)
             removed == [portfolio EXCEPT !.Positions = r.positions]
         IN  IF r.err # "nil"
             THEN /\ call' = [op |-> "RemovePosition", arg |-> id,
                              err |-> "failed to remove position",
                              before |-> portfolio.Positions,
                              id |-> portfolio.ID]
                  /\ UNCHANGED <<portfolio, db>>
             ELSE \E s \in SaveOutcomes(db, removed) :
                    /\ portfolio' = s.p
                    /\ db' = s.db
                    /\ call' = [op |-> "RemovePosition", arg |-> id,
                                err |-> s.err,
                                before |-> portfolio.Positions,
                                id |-> portfolio.ID]
    /\ calls' = calls + 1
    /\ UNCHANGED <<nextId, tx, batch, tasks>>

\* The loop of RefreshPrices going on to the next position after a failed
\* quote.
RECURSIVE RefreshFromPastFailures(_, _, _)
RefreshFromPastFailures(positions, quotes, i) ==
    IF i > Len(positions) THEN [positions |-> positions, err |-> "nil"]
    ELSE IF quotes[i] = 0
    THEN RefreshFromPastFailures(positions, quotes, i + 1)
    ELSE RefreshFromPastFailures(
             [positions EXCEPT
                 ![i] = UpdatePrice(@, ParseQuotePrice(quotes[i]).val).pos],
             quotes, i + 1)

\* The loop of RefreshPrices from position i on: quotes[j] is the price
\* quoted for position j, 0 standing for a failed quote.
RECURSIVE RefreshFrom(_, _, _)
RefreshFrom(positions, quotes, i) ==
    IF i > Len(positions) THEN [positions |-> positions, err |-> "nil"]
    ELSE IF quotes[i] = 0
    THEN [positions |-> positions, err |-> "failed to get quote"]
    ELSE LET price == ParseQuotePrice(quotes[i])
             u == UpdatePrice(positions[i], price.val)
         IN  IF price.err
             THEN [positions |-> positions,
                   err |-> "failed to parse quote price"]
             ELSE IF u.err
             THEN [positions |-> [positions EXCEPT ![i] = u.pos],
                   err |-> "failed to update price"]
             ELSE RefreshFrom([positions EXCEPT ![i] = u.pos], quotes,
                              i + 1)

\* PortfolioService.RefreshPrices.
SvcRefreshPrices ==
    /\ calls < MaxSvcCalls
    /\ portfolio.ID # ""
    /\ \E quotes \in [1..Len(portfolio.Positions) -> QuotePrices \cup {0}] :
         LET r == RefreshFrom(portfolio.Positions, quotes, 1)
             refreshed == [portfolio EXCEPT !.Positions = r.positions]
         IN  IF r.err # "nil"
             THEN /\ portfolio' = refreshed
                  /\ call' = [op |-> "RefreshPrices", arg |-> quotes,
                              err |-> r.err,
                              before |-> portfolio.Positions,
                              id |-> portfolio.ID, saves |-> 0]
                  /\ UNCHANGED db
             ELSE \E s \in SaveOutcomes(db, refreshed) :
                    /\ portfolio' = s.p
                    /\ db' = s.db
                    /\ call' = [op |-> "RefreshPrices", arg |-> quotes,
                                err |-> s.err,
                                before |-> portfolio.Positions,
                                id |-> portfolio.ID, saves |-> 1]
    /\ calls' = calls + 1
    /\ UNCHANGED <<nextId, tx, batch, tasks>>

\* PortfolioService.GetPosition.
SvcGetPosition ==
    /\ calls < MaxSvcCalls
    /\ portfolio.ID # ""
    /\ \E id \in {UUID(n) : n \in 1..nextId} :
         call' = [op |-> "GetPosition", arg |-> id,
                  err |-> IF IndexOfID(portfolio.Positions, id) = 0
                          THEN "failed to get position" ELSE "nil",
                  before |-> portfolio.Positions, id |-> portfolio.ID]
    /\ calls' = calls + 1
    /\ UNCHANGED <<portfolio, nextId, db, tx, batch, tasks>>

\* PortfolioService.ListPositions.
SvcListPositions ==
    /\ calls < MaxSvcCalls
    /\ portfolio.ID # ""
    /\ call' = [op |-> "ListPositions", arg |-> portfolio.Positions,
                err |-> "nil", before |-> portfolio.Positions,
                id |-> portfolio.ID]
    /\ calls' = calls + 1
    /\ UNCHANGED <<portfolio, nextId, db, tx, batch, tasks>>

\* PortfolioService.GetPortfolioSummary.
SvcGetPortfolioSummary ==
    /\ calls < MaxSvcCalls
    /\ portfolio.ID # ""
    /\ call' = [op |-> "GetPortfolioSummary", arg |-> portfolio,
                err |-> "nil", before |-> portfolio.Positions,
                id |-> portfolio.ID]
    /\ calls' = calls + 1
    /\ UNCHANGED <<portfolio, nextId, db, tx, batch, tasks>>

NextService ==
    \/ SvcNewPortfolioService
    \/ SvcAddPosition
    \/ SvcRemovePosition
    \/ SvcRefreshPrices
    \/ SvcGetPosition
    \/ SvcListPositions
    \/ SvcGetPortfolioSummary

SpecService == InitService /\ [][NextService]_vars

(***************************************************************************)
(* SpecConc: two request tasks, each running one use case of the service   *)
(* on the same default portfolio.  The service holds no lock, so the       *)
(* steps of the tasks interleave freely.  A step is one access to the      *)
(* shared portfolio, or the calls made between two accesses:               *)
(*   fetch    the provider calls for the next position to add              *)
(*   scan     the loop of Portfolio.AddPosition or RemovePosition          *)
(*   merge, append, remove   the write that follows the loop               *)
(*   refresh  a round of the loop of RefreshPrices up to its quote         *)
(*   update   the write of the quoted price that ends the round            *)
(*   save     repo.Save                                                    *)
(*   reading  a read use case between taking the slice and returning       *)
(***************************************************************************)
TaskIDs == {"t1", "t2"}

IdleTask ==
    [op |-> "none", pc |-> "idle", todo |-> <<>>, pos |-> <<>>,
     idx |-> 0, n |-> 0, added |-> 0, seen |-> <<>>, err |-> "nil"]

\* What the add use cases are asked for: AddPosition one request, the
\* batch one or two of distinct ISINs, in the order its loop takes them.
ConcRequests ==
    {[ISIN |-> isin, InvestedAmount |-> a] : isin \in ISINs, a \in {1000, 0}}

ConcBatches ==
    {<<[ISIN |-> isin, InvestedAmount |-> 1000]>> : isin \in ISINs}
    \cup {<<[ISIN |-> ab[1], InvestedAmount |-> 1000],
            [ISIN |-> ab[2], InvestedAmount |-> 1000]>> :
            ab \in {x \in ISINs \X ISINs : x[1] # x[2]}}

\* The default portfolio with no position, with one, or with two of
\* different symbols.
InitConc ==
    /\ portfolio \in
         {NewPortfolio(UUID(1), "default"), HeldPortfolio,
          [HeldPortfolio EXCEPT !.Positions =
             Append(@, [PricedPosition(UUID(3),
                           NewInstrument("US456", "AAPL", ""),
                           NewDecimalFromInt(1000), "USD",
                           NewDecimalFromInt(100))
                        EXCEPT !.PortfolioID = UUID(1)])]}
    /\ nextId = IF Len(portfolio.Positions) = 2 THEN 3 ELSE 2
    /\ call = NoCall
    /\ calls = 0
    /\ db = SaveRows(EmptyDB, portfolio)
    /\ tx = NoTx
    /\ batch = NoBatch
    /\ tasks = [t \in TaskIDs |-> IdleTask]

\* The merge branch of AddPosition on slot i when the amounts it adds to
\* were read from src, the positions as the task saw them.
MergeFrom(positions, src, i, pos) ==
    [positions EXCEPT
        ![i].InvestedAmount = Merge(src, i, pos)[i].InvestedAmount,
        ![i].Quantity = Merge(src, i, pos)[i].Quantity,
        ![i].CurrentPrice = pos.CurrentPrice]

\* A use case that returned, or panicked: its locals are gone.
Finished(task, pc, err) ==
    [IdleTask EXCEPT !.op = task.op, !.pc = pc, !.err = err]

\* Where an add use case goes after the position at the head of todo is
\* dealt with: the batch takes the next one, and saves when something was
\* added; AddPosition saves, or returns the error.
AfterAdd(task, ok, err) ==
    IF task.op = "AddPositionsBatch"
    THEN LET added == task.added + (IF ok THEN 1 ELSE 0)
         IN  IF Len(task.todo) > 1
             THEN [task EXCEPT !.todo = Tail(task.todo), !.added = added,
                               !.pc = "fetch"]
             ELSE IF added > 0
             THEN [task EXCEPT !.todo = <<>>, !.added = added,
                               !.pc = "save"]
             ELSE Finished(task, "done", "nil")
    ELSE IF ok THEN [task EXCEPT !.pc = "save"]
    ELSE Finished(task, "done", err)

\* A request arrives: the handler calls the use case.
TaskStart(t) ==
    /\ tasks[t].pc = "idle"
    /\ \/ \E r \in ConcRequests :
            tasks' = [tasks EXCEPT ![t] =
                        [IdleTask EXCEPT !.op = "AddPosition",
                                         !.pc = "fetch", !.todo = <<r>>]]
       \/ \E rs \in ConcBatches :
            tasks' = [tasks EXCEPT ![t] =
                        [IdleTask EXCEPT !.op = "AddPositionsBatch",
                                         !.pc = "fetch", !.todo = rs]]
       \/ \E id \in {UUID(n) : n \in 2..(nextId + 1)} :
            tasks' = [tasks EXCEPT ![t] =
                        [IdleTask EXCEPT !.op = "RemovePosition",
                                         !.pc = "scan", !.todo = <<id>>]]
       \/ tasks' = [tasks EXCEPT ![t] =
                      [IdleTask EXCEPT !.op = "RefreshPrices",
                                       !.pc = "refresh", !.idx = 1,
                                       !.n = Len(portfolio.Positions)]]
       \/ \E op \in {"GetPosition", "ListPositions",
                     "GetPortfolioSummary"} :
            tasks' = [tasks EXCEPT ![t] =
                        [IdleTask EXCEPT !.op = op, !.pc = "reading",
                                         !.todo = <<UUID(2)>>,
                                         !.seen = portfolio.Positions]]
    /\ UNCHANGED <<portfolio, nextId, call, calls, db, tx, batch>>

\* The search and the quote for the position at the head of todo, and
\* NewPosition and UpdatePrice when both answered.
TaskFetch(t) ==
    /\ tasks[t].pc = "fetch"
    /\ LET r == Head(tasks[t].todo)
       IN  \/ /\ tasks' = [tasks EXCEPT ![t] =
                    AfterAdd(tasks[t], FALSE, "failed to find instrument")]
              /\ UNCHANGED nextId
           \/ \E q \in QuotePrices :
                LET position == NewPosition(UUID(nextId + 1),
                                   NewInstrument(r.ISIN, SymbolFor(r.ISIN),
                                                 ""),
                                   NewDecimalFromInt(r.InvestedAmount),
                                   "USD")
                    u == UpdatePrice(position, ParseQuotePrice(q).val)
                IN  /\ tasks' = [tasks EXCEPT ![t].pos = u.pos,
                                              ![t].pc = "scan"]
                    /\ nextId' = nextId + 1
    /\ UNCHANGED <<portfolio, call, calls, db, tx, batch>>

\* The loop of Portfolio.AddPosition, or of Portfolio.RemovePosition,
\* over the positions as they are now.
TaskScan(t) ==
    /\ tasks[t].pc = "scan"
    /\ IF tasks[t].op = "RemovePosition"
       THEN LET i == IndexOfID(portfolio.Positions, Head(tasks[t].todo))
            IN  tasks' = [tasks EXCEPT ![t] =
                   IF i = 0
                   THEN Finished(tasks[t], "done",
                                 "failed to remove position")
                   ELSE [tasks[t] EXCEPT !.pc = "remove", !.idx = i,
                                         !.seen = portfolio.Positions]]
       ELSE LET i == MatchIndex(portfolio.Positions, tasks[t].pos)
            IN  tasks' = [tasks EXCEPT ![t] =
                   IF ~PositionIsValid(tasks[t].pos)
                   THEN AfterAdd(tasks[t], FALSE, "failed to add position")
                   ELSE [tasks[t] EXCEPT
                           !.pc = IF i # 0 THEN "merge" ELSE "append",
                           !.idx = i,
                           !.seen = portfolio.Positions]]
    /\ UNCHANGED <<portfolio, nextId, call, calls, db, tx, batch>>

\* p.Positions[i] is merged into; the index is the one the loop found,
\* and the amounts added to are those now in the slot or those the loop
\* saw there.  A slot past the end is an index out of range.
TaskMerge(t) ==
    /\ tasks[t].pc = "merge"
    /\ IF tasks[t].idx > Len(portfolio.Positions)
       THEN /\ tasks' = [tasks EXCEPT ![t] =
                           Finished(tasks[t], "panicked", "nil")]
            /\ UNCHANGED portfolio
       ELSE \E src \in {portfolio.Positions, tasks[t].seen} :
              /\ portfolio' = [portfolio EXCEPT !.Positions =
                                 MergeFrom(portfolio.Positions, src,
                                           tasks[t].idx, tasks[t].pos)]
              /\ tasks' = [tasks EXCEPT ![t] =
                             AfterAdd([tasks[t] EXCEPT !.seen = <<>>,
                                                       !.pos = <<>>,
                                                       !.idx = 0],
                                      TRUE, "nil")]
    /\ UNCHANGED <<nextId, call, calls, db, tx, batch>>

\* p.Positions = append(p.Positions, pos), onto the slice as it is now or
\* as it was when the task took it.
TaskAppend(t) ==
    /\ tasks[t].pc = "append"
    /\ \E base \in {portfolio.Positions, tasks[t].seen} :
         portfolio' = [portfolio EXCEPT !.Positions =
                          Append(base, tasks[t].pos)]
    /\ tasks' = [tasks EXCEPT ![t] =
                   AfterAdd([tasks[t] EXCEPT !.seen = <<>>, !.pos = <<>>,
                                             !.idx = 0],
                            TRUE, "nil")]
    /\ UNCHANGED <<nextId, call, calls, db, tx, batch>>

\* p.Positions = append(p.Positions[:i], p.Positions[i+1:]...)
TaskRemove(t) ==
    /\ tasks[t].pc = "remove"
    /\ IF tasks[t].idx > Len(portfolio.Positions)
       THEN /\ tasks' = [tasks EXCEPT ![t] =
                           Finished(tasks[t], "panicked", "nil")]
            /\ UNCHANGED portfolio
       ELSE /\ portfolio' = [portfolio EXCEPT !.Positions =
                               RemoveAt(portfolio.Positions, tasks[t].idx)]
            /\ tasks' = [tasks EXCEPT ![t].pc = "save",
                                      ![t].seen = <<>>, ![t].idx = 0]
    /\ UNCHANGED <<nextId, call, calls, db, tx, batch>>

\* One round of the loop of RefreshPrices, in its two accesses to the
\* portfolio; the range was taken when the loop began.  At "refresh",
\* pos := &s.defaultPortfolio.Positions[i] on the slice as it is now, and
\* the quote is asked for pos.Instrument.Symbol.  At "update", the quote
\* has come and pos.UpdatePrice writes through the pointer: to slot i of
\* the array, whatever position is there now; to no position of the
\* portfolio when the slice has shrunk below i, or when an append has
\* moved the positions to a new array.
TaskRefresh(t) ==
    /\ tasks[t].pc \in {"refresh", "update"}
    /\ LET i == tasks[t].idx
       IN  IF tasks[t].pc = "refresh"
           THEN /\ tasks' = [tasks EXCEPT ![t] =
                      IF i > tasks[t].n
                      THEN [tasks[t] EXCEPT !.pc = "save"]
                      ELSE IF i > Len(portfolio.Positions)
                      THEN Finished(tasks[t], "panicked", "nil")
                      ELSE [tasks[t] EXCEPT
                              !.pc = "update",
                              !.todo = <<portfolio.Positions[i]
                                            .Instrument.Symbol>>,
                              !.seen = portfolio.Positions]]
                /\ UNCHANGED portfolio
           ELSE \/ /\ tasks' = [tasks EXCEPT ![t] =
                                  Finished(tasks[t], "done",
                                           "failed to get quote")]
                   /\ UNCHANGED portfolio
                \/ /\ tasks' = [tasks EXCEPT ![t].idx = i + 1,
                                             ![t].pc = "refresh",
                                             ![t].todo = <<>>,
                                             ![t].seen = <<>>]
                   /\ \/ /\ i <= Len(portfolio.Positions)
                         /\ \E q \in QuotePrices :
                              portfolio' = [portfolio EXCEPT
                                 !.Positions[i] =
                                    UpdatePrice(portfolio.Positions[i],
                                                ParseQuotePrice(q).val).pos]
                      \/ /\ \/ i > Len(portfolio.Positions)
                            \/ Len(portfolio.Positions)
                                  > Len(tasks[t].seen)
                         /\ UNCHANGED portfolio
    /\ UNCHANGED <<nextId, call, calls, db, tx, batch>>

\* repo.Save(ctx, s.defaultPortfolio), and the return.
TaskSave(t) ==
    /\ tasks[t].pc = "save"
    /\ \E s \in SaveOutcomes(db, portfolio) :
         /\ db' = s.db
         /\ portfolio' = s.p
         /\ tasks' = [tasks EXCEPT ![t] =
                        Finished(tasks[t], "done", s.err)]
    /\ UNCHANGED <<nextId, call, calls, tx, batch>>

\* A read use case returns what it found.
TaskRead(t) ==
    /\ tasks[t].pc = "reading"
    /\ tasks' = [tasks EXCEPT ![t] =
                   Finished(tasks[t], "done",
                            IF /\ tasks[t].op = "GetPosition"
                               /\ IndexOfID(portfolio.Positions,
                                            Head(tasks[t].todo)) = 0
                            THEN "failed to get position" ELSE "nil")]
    /\ UNCHANGED <<portfolio, nextId, call, calls, db, tx, batch>>

NextConc ==
    \/ \E t \in TaskIDs : TaskStart(t)
    \/ \E t \in TaskIDs : TaskFetch(t)
    \/ \E t \in TaskIDs : TaskScan(t)
    \/ \E t \in TaskIDs : TaskMerge(t)
    \/ \E t \in TaskIDs : TaskAppend(t)
    \/ \E t \in TaskIDs : TaskRemove(t)
    \/ \E t \in TaskIDs : TaskRefresh(t)
    \/ \E t \in TaskIDs : TaskSave(t)
    \/ \E t \in TaskIDs : TaskRead(t)

SpecConc == InitConc /\ [][NextConc]_vars

(***************************************************************************)
(* SpecUpdater: one PriceUpdater from its construction on.  The goroutine  *)
(* of Start, the ticker, a caller of Stop and the owner of the context     *)
(* take steps in any order.  The updater's state is held in tasks:         *)
(*   pc        where Start is: "idle" before the call, "select" at the     *)
(*             head of the loop, "waiting" when blocked in the select,     *)
(*             "tick", "stop" or "ctx" when that case has been chosen,     *)
(*             "refreshing" inside RefreshPrices, "returned" at the end;   *)
(*   tick      a tick is buffered in ticker.C (capacity one);              *)
(*   stopped   stopChan is closed;  ctxDone  ctx.Done() is closed;         *)
(*   ticks     the ticks fired;  refreshes  the calls of RefreshPrices;    *)
(*   late      the calls of RefreshPrices made after Stop or the cancel;   *)
(*   lastErr   what the last RefreshPrices returned;                       *)
(*   stopAt    where Start was when Stop was called.                       *)
(* SpecUpdaterLive adds the fairness of the Go scheduler and of select.    *)
(***************************************************************************)
MaxTicks == 3

\* NewPriceUpdater: stopChan open, Start not yet called.
InitUpdater ==
    /\ portfolio = NewPortfolio(UUID(1), "default")
    /\ nextId = 1
    /\ call = NoCall
    /\ calls = 0
    /\ db = EmptyDB
    /\ tx = NoTx
    /\ batch = NoBatch
    /\ tasks = [pc |-> "idle", tick |-> FALSE, stopped |-> FALSE,
                ctxDone |-> FALSE, ticks |-> 0, refreshes |-> 0,
                late |-> 0, lastErr |-> "none", stopAt |-> "none"]

\* The cases of the select that can proceed, with the close of stopChan
\* never seen.
ReadyWithoutStop(u) ==
    (IF u.tick THEN {"tick"} ELSE {})
    \cup (IF u.ctxDone THEN {"ctx"} ELSE {})

\* The cases of the select that can proceed: a receive from ticker.C when
\* a tick is buffered, a receive from a closed stopChan or ctx.Done().
Ready(u) ==
    (IF u.tick THEN {"tick"} ELSE {})
    \cup (IF u.stopped THEN {"stop"} ELSE {})
    \cup (IF u.ctxDone THEN {"ctx"} ELSE {})

\* A blocked select woken by a tick only.
WokenByTickOnly(u, case) ==
    IF u.pc = "waiting" /\ case = "tick" THEN case ELSE u.pc

\* A goroutine blocked in the select is woken by the first channel event
\* and runs that event's case; otherwise the event leaves Start where it
\* is.
Woken(u, case) ==
    IF u.pc = "waiting" THEN case ELSE u.pc

\* The loop left when RefreshPrices returns an error.
AfterRefreshReturningOnError(err) ==
    IF err = "nil" THEN "select" ELSE "returned"

\* Lines 35-40: the error of RefreshPrices is logged, and the loop goes
\* on to the next select.
AfterRefresh(err) == "select"

\* Start is called: the ticker is created and the loop entered.
UpdStart ==
    /\ tasks.pc = "idle"
    /\ tasks' = [tasks EXCEPT !.pc = "select"]
    /\ UNCHANGED <<portfolio, nextId, call, calls, db, tx, batch>>

\* The ticker fires: the tick goes to the blocked select, or into the
\* buffer of ticker.C, or is dropped when the buffer is full.
UpdTick ==
    /\ tasks.pc \notin {"idle", "returned"}
    /\ tasks.ticks < MaxTicks
    /\ tasks' = [tasks EXCEPT
                   !.ticks = @ + 1,
                   !.pc = Woken(tasks, "tick"),
                   !.tick = IF tasks.pc = "waiting" THEN FALSE ELSE TRUE]
    /\ UNCHANGED <<portfolio, nextId, call, calls, db, tx, batch>>

\* The select is entered: one of the ready cases is chosen, or the
\* goroutine blocks when none is ready.
UpdSelect ==
    /\ tasks.pc = "select"
    /\ IF Ready(tasks) = {}
       THEN tasks' = [tasks EXCEPT !.pc = "waiting"]
       ELSE \E case \in Ready(tasks) :
              tasks' = [tasks EXCEPT
                          !.pc = case,
                          !.tick = IF case = "tick" THEN FALSE ELSE @]
    /\ UNCHANGED <<portfolio, nextId, call, calls, db, tx, batch>>

\* The chosen case runs: RefreshPrices is called, or Start returns.
UpdRunCase ==
    /\ tasks.pc \in {"tick", "stop", "ctx"}
    /\ tasks' = IF tasks.pc = "tick"
                THEN [tasks EXCEPT
                        !.pc = "refreshing",
                        !.refreshes = @ + 1,
                        !.late = IF tasks.stopped \/ tasks.ctxDone
                                 THEN @ + 1 ELSE @]
                ELSE [tasks EXCEPT !.pc = "returned"]
    /\ UNCHANGED <<portfolio, nextId, call, calls, db, tx, batch>>

\* RefreshPrices returns, with an error or without.
UpdRefreshReturn ==
    /\ tasks.pc = "refreshing"
    /\ \E err \in {"nil", "refresh failed"} :
         tasks' = [tasks EXCEPT !.pc = AfterRefresh(err), !.lastErr = err]
    /\ UNCHANGED <<portfolio, nextId, call, calls, db, tx, batch>>

\* Stop: close(u.stopChan).  The contract forbids a second call.
UpdStop ==
    /\ ~tasks.stopped
    /\ tasks' = [tasks EXCEPT !.stopped = TRUE,
                              !.stopAt = tasks.pc,
                              !.pc = Woken(tasks, "stop")]
    /\ UNCHANGED <<portfolio, nextId, call, calls, db, tx, batch>>

\* The context passed to Start is cancelled.
UpdCancel ==
    /\ ~tasks.ctxDone
    /\ tasks' = [tasks EXCEPT !.ctxDone = TRUE,
                              !.pc = Woken(tasks, "ctx")]
    /\ UNCHANGED <<portfolio, nextId, call, calls, db, tx, batch>>

NextUpdater ==
    \/ UpdStart
    \/ UpdTick
    \/ UpdSelect
    \/ UpdRunCase
    \/ UpdRefreshReturn
    \/ UpdStop
    \/ UpdCancel

SpecUpdater == InitUpdater /\ [][NextUpdater]_vars

\* The goroutine of Start is launched and scheduled, RefreshPrices
\* returns, and a select that finds stopChan or ctx.Done() closed again
\* and again chooses that case at last (Go chooses among the ready cases
\* at random).
FairUpdater ==
    /\ WF_vars(UpdStart)
    /\ WF_vars(UpdSelect)
    /\ WF_vars(UpdRunCase)
    /\ WF_vars(UpdRefreshReturn)
    /\ SF_vars(UpdSelect /\ tasks'.pc \in {"stop", "ctx"})

SpecUpdaterLive == SpecUpdater /\ FairUpdater

(***************************************************************************)
(* SpecFan: one call of a concurrent fallback stage of AddPositionsBatch,  *)
(* searchInstrumentsConcurrent or getQuotesConcurrent.  The caller, the    *)
(* workers and the goroutine that closes the channel take steps in any     *)
(* order.  The stage's state is held in tasks:                             *)
(*   pc        where the caller is: "idle", "spawning" in the loop that    *)
(*             starts the workers, "collecting" in the range over the      *)
(*             channel, "returned";                                        *)
(*   stage     "search" or "quote";  inputs  the ISINs or symbols;         *)
(*   cap       the capacity of resultChan;  chan  the results buffered;    *)
(*   closed    resultChan is closed;  wg  the counter of the WaitGroup;    *)
(*   workers   per worker spawned: "call" in the provider, "send" at the   *)
(*             send with the result's err, "exit" past the send, "done"    *)
(*             after the deferred wg.Done, "panicked";                     *)
(*   waiter    the closing goroutine: "none", "waiting", "done";           *)
(*   received  per worker, how often the collector got its result;         *)
(*   found, errors   the keys of the two maps the stage returns.           *)
(***************************************************************************)
MaxWorkers == 3

InitFan ==
    /\ portfolio = NewPortfolio(UUID(1), "default")
    /\ nextId = 1
    /\ call = NoCall
    /\ calls = 0
    /\ db = EmptyDB
    /\ tx = NoTx
    /\ batch = NoBatch
    /\ tasks = [pc |-> "idle", stage |-> "none", inputs |-> <<>>, cap |-> 0,
                chan |-> <<>>, closed |-> FALSE, wg |-> 0, workers |-> <<>>,
                waiter |-> "none", received |-> <<>>, found |-> {},
                errors |-> {}]

\* A channel one slot smaller than the number of workers.
ChanCapOneLess(inputs) == IF Len(inputs) = 0 THEN 0 ELSE Len(inputs) - 1

\* make(chan searchResult, len(isins)), make(chan quoteResult, len(symbols))
ChanCap(inputs) == Len(inputs)

\* A Wait that returns while one worker is still counted.
WaitReturnsEarly(wg) == wg <= 1

\* wg.Wait() returns when the counter is zero.
WaitReturns(wg) == wg = 0

\* The stage is called with the ISINs of the requests, or the symbols of
\* the instruments found; both may hold a key twice.
FanCall ==
    /\ tasks.pc = "idle"
    /\ \E stage \in {"search", "quote"}, n \in 0..MaxWorkers :
         \E inputs \in [1..n -> IF stage = "search" THEN ISINs ELSE Symbols] :
            tasks' = [tasks EXCEPT !.pc = "spawning", !.stage = stage,
                                   !.inputs = inputs,
                                   !.cap = ChanCap(inputs),
                                   !.received = [i \in 1..n |-> 0]]
    /\ UNCHANGED <<portfolio, nextId, call, calls, db, tx, batch>>

\* One round of the loop over the inputs: wg.Add(1) and the go statement.
FanSpawn ==
    /\ tasks.pc = "spawning"
    /\ Len(tasks.workers) < Len(tasks.inputs)
    /\ tasks' = [tasks EXCEPT !.wg = @ + 1,
                              !.workers = Append(@, [pc |-> "call",
                                                     err |-> FALSE])]
    /\ UNCHANGED <<portfolio, nextId, call, calls, db, tx, batch>>

\* The provider answers the worker, with a value or an error.
WorkerCall(w) ==
    /\ w \in 1..Len(tasks.workers)
    /\ tasks.workers[w].pc = "call"
    /\ \E err \in BOOLEAN :
         tasks' = [tasks EXCEPT !.workers[w] = [pc |-> "send", err |-> err]]
    /\ UNCHANGED <<portfolio, nextId, call, calls, db, tx, batch>>

\* resultChan <- result: proceeds when the buffer has room, panics on a
\* closed channel.
WorkerSend(w) ==
    /\ w \in 1..Len(tasks.workers)
    /\ tasks.workers[w].pc = "send"
    /\ IF tasks.closed
       THEN tasks' = [tasks EXCEPT !.workers[w].pc = "panicked"]
       ELSE /\ Len(tasks.chan) < tasks.cap
            /\ tasks' = [tasks EXCEPT
                 !.chan = Append(@, [w |-> w, err |-> tasks.workers[w].err]),
                 !.workers[w] = [pc |-> "exit", err |-> FALSE]]
    /\ UNCHANGED <<portfolio, nextId, call, calls, db, tx, batch>>

\* defer wg.Done()
WorkerDone(w) ==
    /\ w \in 1..Len(tasks.workers)
    /\ tasks.workers[w].pc = "exit"
    /\ tasks' = [tasks EXCEPT !.wg = @ - 1, !.workers[w].pc = "done"]
    /\ UNCHANGED <<portfolio, nextId, call, calls, db, tx, batch>>

\* After the loop: the goroutine that waits and closes is started, and
\* the caller enters the range over resultChan.
FanWait ==
    /\ tasks.pc = "spawning"
    /\ Len(tasks.workers) = Len(tasks.inputs)
    /\ tasks' = [tasks EXCEPT !.pc = "collecting", !.waiter = "waiting"]
    /\ UNCHANGED <<portfolio, nextId, call, calls, db, tx, batch>>

\* wg.Wait() returned: close(resultChan).
FanClose ==
    /\ tasks.waiter = "waiting"
    /\ WaitReturns(tasks.wg)
    /\ tasks' = [tasks EXCEPT !.closed = TRUE, !.waiter = "done"]
    /\ UNCHANGED <<portfolio, nextId, call, calls, db, tx, batch>>

\* One round of the range: a result is taken from the channel and put in
\* the map of values or the map of errors under its key.
FanReceive ==
    /\ tasks.pc = "collecting"
    /\ tasks.chan # <<>>
    /\ LET r == Head(tasks.chan)
           key == tasks.inputs[r.w]
       IN  tasks' = [tasks EXCEPT
                 !.chan = Tail(@),
                 !.received[r.w] = @ + 1,
                 !.errors = IF r.err THEN @ \cup {key} ELSE @,
                 !.found = IF r.err THEN @ ELSE @ \cup {key}]
    /\ UNCHANGED <<portfolio, nextId, call, calls, db, tx, batch>>

\* The range ends when the channel is closed and drained; the stage
\* returns the two maps.
FanReturn ==
    /\ tasks.pc = "collecting"
    /\ tasks.chan = <<>>
    /\ tasks.closed
    /\ tasks' = [tasks EXCEPT !.pc = "returned"]
    /\ UNCHANGED <<portfolio, nextId, call, calls, db, tx, batch>>

NextFan ==
    \/ FanCall
    \/ FanSpawn
    \/ \E w \in 1..MaxWorkers : WorkerCall(w)
    \/ \E w \in 1..MaxWorkers : WorkerSend(w)
    \/ \E w \in 1..MaxWorkers : WorkerDone(w)
    \/ FanWait
    \/ FanClose
    \/ FanReceive
    \/ FanReturn

SpecFan == InitFan /\ [][NextFan]_vars

(***************************************************************************)
(* SpecUpsert: two Save transactions on one migrated database of either    *)
(* dialect, their statements interleaving.  Each transaction reads the     *)
(* committed rows and its own writes (READ COMMITTED, the default of both  *)
(* databases); a write of a key waits while the other transaction holds    *)
(* an uncommitted write of that key; the tables have the primary keys of   *)
(* the migration script.  The transactions are held in tasks:              *)
(*   pc     "idle", "stmt" before a statement of Save, "write" between     *)
(*          the Oracle dialect's SELECT COUNT and its INSERT or UPDATE,    *)
(*          "done";                                                        *)
(*   todo   the upserts Save has yet to make;  count  the row count read;  *)
(*   log    the upserts made and not committed;  err  what Save returned.  *)
(* Statements fail here for no other reason than the interleaving, and     *)
(* both transactions take shared keys in the same order.                   *)
(***************************************************************************)
IdleTx == [pc |-> "idle", todo |-> <<>>, count |-> 0, log |-> <<>>,
           err |-> "nil"]

InitUpsert ==
    /\ portfolio = NoPortfolio
    /\ nextId = 2
    /\ call = NoCall
    /\ calls = 0
    /\ db \in {[EmptyDB EXCEPT !.schema.dialect = d] :
                 d \in {"postgres", "oracle"}}
    /\ tx = NoTx
    /\ batch = NoBatch
    /\ tasks = [t \in TaskIDs |-> IdleTx]

\* The upserts of Save in the order it makes them: the portfolio, then
\* for each position its instrument and the position.
Statements(p) ==
    <<[table |-> "portfolios", key |-> p.ID, row |-> p]>>
    \o [n \in 1..(2 * Len(p.Positions)) |->
         LET pos == p.Positions[(n + 1) \div 2]
         IN  IF n % 2 = 1
             THEN [table |-> "instruments", key |-> pos.Instrument.ISIN,
                   row |-> pos.Instrument]
             ELSE [table |-> "positions", key |-> pos.ID,
                   row |-> [pos EXCEPT !.PortfolioID = p.ID]]]

\* The rows after the upserts of a log, made in order.
RECURSIVE View(_, _)
View(d, log) ==
    IF log = <<>> THEN d
    ELSE LET st == Head(log)
         IN  View(CASE st.table = "portfolios" -> UpsertPortfolio(d, st.row)
                    [] st.table = "instruments" ->
                          UpsertInstrument(d, st.row)
                    [] OTHER -> UpsertPosition(d, st.row),
                  Tail(log))

\* SELECT COUNT(*) ... WHERE id = :1 (WHERE isin = :1), and the conflict
\* check of ON CONFLICT: the rows of the key a transaction sees.
Count(d, st) ==
    IF st.table = "instruments"
    THEN Cardinality({r \in d.instruments : r.isin = st.key})
    ELSE Cardinality({r \in d[st.table] : r.id = st.key})

\* Save is called: WithTx begins the transaction.
TxBegin(t) ==
    /\ tasks[t].pc = "idle"
    /\ \E id \in RepoPortfolioIDs,
          ps \in {<<>>, <<RepoPosition("p1", "US123")>>,
                  <<RepoPosition("p2", "US123")>>,
                  <<RepoPosition("p1", "US123"),
                    RepoPosition("p2", "US456")>>} :
         tasks' = [tasks EXCEPT ![t] =
                     [IdleTx EXCEPT
                        !.pc = "stmt",
                        !.todo = Statements(
                           [NewPortfolio(id, "default") EXCEPT
                              !.Positions = ps])]]
    /\ UNCHANGED <<portfolio, nextId, call, calls, db, tx, batch>>

\* The Oracle dialect's existence check before its INSERT or UPDATE.
TxCount(t) ==
    /\ tasks[t].pc = "stmt"
    /\ tasks[t].todo # <<>>
    /\ db.schema.dialect = "oracle"
    /\ tasks' = [tasks EXCEPT
                   ![t].count = Count(View(db, tasks[t].log),
                                      Head(tasks[t].todo)),
                   ![t].pc = "write"]
    /\ UNCHANGED <<portfolio, nextId, call, calls, db, tx, batch>>

\* The write of an upsert.  Postgres: INSERT ... ON CONFLICT, one
\* statement.  Oracle: nothing for an instrument counted, UPDATE for
\* another row counted, INSERT otherwise; an INSERT of a key that has a
\* committed row by now fails with ORA-00001, and WithTx rolls back.
TxExec(t) ==
    /\ tasks[t].todo # <<>>
    /\ LET st == Head(tasks[t].todo)
           oracle == db.schema.dialect = "oracle"
           present == Count(View(db, tasks[t].log), st) > 0
           insert == IF oracle THEN tasks[t].count = 0 ELSE ~present
           skipped == oracle /\ ~insert /\ st.table = "instruments"
           next == [tasks[t] EXCEPT !.todo = Tail(@), !.pc = "stmt",
                                    !.count = 0]
       IN  /\ tasks[t].pc = IF oracle THEN "write" ELSE "stmt"
           /\ skipped \/
                \A u \in TaskIDs \ {t} :
                   \A k \in 1..Len(tasks[u].log) :
                      <<tasks[u].log[k].table, tasks[u].log[k].key>>
                         # <<st.table, st.key>>
           /\ tasks' = [tasks EXCEPT ![t] =
                 IF skipped THEN next
                 ELSE IF oracle /\ insert /\ present
                 THEN [IdleTx EXCEPT !.pc = "done",
                                     !.err = "ORA-00001"]
                 ELSE [next EXCEPT !.log = Append(@, st)]]
    /\ UNCHANGED <<portfolio, nextId, call, calls, db, tx, batch>>

\* fn returned nil: WithTx commits, and the writes become visible.
TxCommit(t) ==
    /\ tasks[t].pc = "stmt"
    /\ tasks[t].todo = <<>>
    /\ db' = View(db, tasks[t].log)
    /\ tasks' = [tasks EXCEPT ![t] = [IdleTx EXCEPT !.pc = "done"]]
    /\ UNCHANGED <<portfolio, nextId, call, calls, tx, batch>>

NextUpsert ==
    \/ \E t \in TaskIDs : TxBegin(t)
    \/ \E t \in TaskIDs : TxCount(t)
    \/ \E t \in TaskIDs : TxExec(t)
    \/ \E t \in TaskIDs : TxCommit(t)

SpecUpsert == InitUpsert /\ [][NextUpsert]_vars

(***************************************************************************)
(* Claims on the aggregate (SpecDomain).                                   *)
(***************************************************************************)
HasISIN(positions, isin) ==
    \E i \in 1..Len(positions) : positions[i].Instrument.ISIN = isin

SlotOfISIN(positions, isin) ==
    CHOOSE i \in 1..Len(positions) : positions[i].Instrument.ISIN = isin

\* C6: after any sequence of AddPosition and RemovePosition calls the
\* portfolio holds at most one position for each ISIN.
C6_OnePositionPerISIN ==
    \A i, j \in 1..Len(portfolio.Positions) :
        i # j => portfolio.Positions[i].Instrument.ISIN
                     # portfolio.Positions[j].Instrument.ISIN

\* A third AddPosition merged into one of two held positions.
C6_Witness ==
    /\ call.op = "AddPosition" /\ call.err = "nil"
    /\ Len(call.before) = 2
    /\ HasISIN(call.before, call.arg.Instrument.ISIN)
    /\ Len(portfolio.Positions) = 2

\* What C7 says of a successful AddPosition(arg) that found a position with
\* arg's ISIN: no new entry; that position keeps its id, its InvestedAmount
\* and Quantity grow by arg's, its CurrentPrice is arg's; the others are
\* untouched.
MergedByISIN ==
    LET i == SlotOfISIN(call.before, call.arg.Instrument.ISIN)
        was == call.before[i]
        now == portfolio.Positions[i]
    IN  /\ Len(portfolio.Positions) = Len(call.before)
        /\ now.ID = was.ID
        /\ now.Instrument = was.Instrument
        /\ Equal(now.InvestedAmount,
                 Add(was.InvestedAmount, call.arg.InvestedAmount))
        /\ Equal(now.Quantity, Add(was.Quantity, call.arg.Quantity))
        /\ now.CurrentPrice = call.arg.CurrentPrice
        /\ \A j \in 1..Len(call.before) :
              j # i => portfolio.Positions[j] = call.before[j]

\* The scenario of TestAddPosition_Merge: 1000 at 100, then 500 at 125.
MergeScenario ==
    (/\ Len(call.before) = 1
     /\ Equal(call.before[1].InvestedAmount, NewDecimalFromInt(1000))
     /\ Equal(call.before[1].CurrentPrice, NewDecimalFromInt(100))
     /\ Equal(call.before[1].Quantity, NewDecimalFromInt(10))
     /\ Equal(call.arg.InvestedAmount, NewDecimalFromInt(500))
     /\ Equal(call.arg.CurrentPrice, NewDecimalFromInt(125)))
    => /\ Len(portfolio.Positions) = 1
       /\ Equal(portfolio.Positions[1].InvestedAmount,
                NewDecimalFromInt(1500))
       /\ Equal(portfolio.Positions[1].Quantity, NewDecimalFromInt(14))
       /\ Equal(portfolio.Positions[1].CurrentPrice, NewDecimalFromInt(125))

\* arg's id is not the id of a held position of another ISIN.
IDNotHeldElsewhere ==
    \A j \in 1..Len(call.before) :
        call.before[j].ID = call.arg.ID
            => call.before[j].Instrument.ISIN = call.arg.Instrument.ISIN

QuantityIsAmountOverPrice(pos) ==
    (~IsZero(pos.CurrentPrice) /\ ~IsZero(pos.InvestedAmount))
        => Equal(pos.Quantity, Div(pos.InvestedAmount, pos.CurrentPrice).val)

\* C8 as stated: in every reachable state every position with a non-zero
\* CurrentPrice and InvestedAmount has Quantity = InvestedAmount / CurrentPrice.
C8_QuantityInvariant_Always ==
    \A i \in 1..Len(portfolio.Positions) :
        QuantityIsAmountOverPrice(portfolio.Positions[i])

\* C8, amended: a position on which UpdatePrice has just run (a new position
\* priced and appended, or UpdatePositionPrice on a held one) carries the
\* given price and, when the price and InvestedAmount are non-zero,
\* Quantity = InvestedAmount / CurrentPrice; a merge adds the incoming
\* quantity and overwrites the price without recomputing.
C8_QuantityAfterUpdatePrice ==
    /\ (/\ call.op = "UpdatePositionPrice" /\ call.err = "nil")
        => LET i == IndexOfID(portfolio.Positions, call.arg.id)
           IN  /\ i # 0
               /\ portfolio.Positions[i].CurrentPrice = call.arg.price
               /\ QuantityIsAmountOverPrice(portfolio.Positions[i])
    /\ (/\ call.op = "AddPosition" /\ call.err = "nil"
        /\ Len(portfolio.Positions) = Len(call.before) + 1)
        => QuantityIsAmountOverPrice(
               portfolio.Positions[Len(portfolio.Positions)])

\* UpdatePositionPrice has re-priced a position that a merge had left with
\* Quantity # InvestedAmount / CurrentPrice.
C8_Witness ==
    /\ call.op = "UpdatePositionPrice" /\ call.err = "nil"
    /\ ~IsZero(call.arg.price)
    /\ \E i \in 1..Len(call.before) :
          /\ call.before[i].ID = call.arg.id
          /\ ~QuantityIsAmountOverPrice(call.before[i])
          /\ QuantityIsAmountOverPrice(portfolio.Positions[i])
          /\ ~Equal(portfolio.Positions[i].Quantity, call.before[i].Quantity)

(***************************************************************************)
(* Claims on the repository (SpecRepo).                                    *)
(***************************************************************************)
IdsAndISINs(positions) ==
    {[id |-> x.ID, isin |-> x.Instrument.ISIN] : x \in positions}

Range(s) == {s[i] : i \in 1..Len(s)}

\* C9: after a Save(p) that succeeded, whatever the repository held
\* before, FindByID(p.ID) returns p's id, p's name and exactly p's
\* positions (the same ids with the same ISINs, no more and no fewer).
C9_SaveThenFindByID ==
    (call.op = "Save" /\ call.err = "nil") =>
        LET f == FindByID(db, call.arg.ID)
        IN  /\ f.err = "nil"
            /\ f.ID = call.arg.ID
            /\ f.Name = call.arg.Name
            /\ IdsAndISINs(f.Positions)
                 = IdsAndISINs(Range(call.arg.Positions))

\* C10: Save is all-or-nothing.  While its transaction is open the
\* committed rows are those from before the Save, and when Save returns
\* an error (a statement failed, or BeginTx or Commit did) they still are.
C10_SaveAllOrNothing ==
    /\ tx.pc # "none" => db = tx.before
    /\ (call.op = "Save" /\ call.err # "nil") => db = call.before

\* A Save whose position upsert or commit failed after the transaction
\* had written rows the database did not hold.
C10_Witness ==
    /\ call.op = "Save"
    /\ call.err \in {"upsert position", "commit transaction"}
    /\ SaveRows(call.before, call.arg) # call.before
    /\ call.before.portfolios # {}

(***************************************************************************)
(* Claims on the batch use case (SpecBatch).                               *)
(***************************************************************************)
ISINsOf(results) == {results[i].ISIN : i \in 1..Len(results)}

Occurrences(results, isin) ==
    Cardinality({i \in 1..Len(results) : results[i].ISIN = isin})

\* C1: for a non-empty request list and any answers of the provider, each
\* distinct ISIN of the requests appears exactly once in the result, in
\* exactly one of Successful and Failed.
C1_EachISINExactlyOnce ==
    (batch.pc = "done" /\ Len(batch.requests) > 0) =>
        /\ ISINsOf(batch.Successful) \cap ISINsOf(batch.Failed) = {}
        /\ ISINsOf(batch.Successful) \cup ISINsOf(batch.Failed)
             = ISINsOf(batch.requests)
        /\ \A isin \in ISINsOf(batch.requests) :
              Occurrences(batch.Successful, isin)
                + Occurrences(batch.Failed, isin) = 1

\* C5: when Save fails in the commit stage, the result's Successful is
\* empty and every ISIN that had been assembled is in Failed with the
\* save error, once for each assembled entry.
C5_SaveFailureFailsAll ==
    (batch.pc = "done" /\ batch.saveErr) =>
        /\ batch.Successful = <<>>
        /\ \A i \in 1..Len(batch.assembled) :
              \E j \in 1..Len(batch.Failed) :
                 batch.Failed[j] = [ISIN |-> batch.assembled[i].ISIN,
                                    Error |-> "failed to save portfolio"]
        /\ Cardinality({j \in 1..Len(batch.Failed) :
              batch.Failed[j].Error = "failed to save portfolio"})
             = Len(batch.assembled)

\* A batch whose Save failed after two ISINs had been assembled.
C5_Witness ==
    /\ batch.pc = "done"
    /\ batch.saveErr
    /\ Len(batch.assembled) = 2

(***************************************************************************)
(* Claims on the service (SpecService).                                    *)
(***************************************************************************)
\* C4: a construction of the service over a repository an earlier service
\* was constructed over yields the earlier service's default-portfolio id.
C4_RestartKeepsDefaultID ==
    (call.op = "NewPortfolioService" /\ call.err = "nil" /\ call.id # "")
        => portfolio.ID = call.id

(***************************************************************************)
(* Claims on concurrent use cases (SpecConc).                              *)
(***************************************************************************)
\* A write use case is in progress: its loop has run and its write or its
\* Save is still to come, or it is inside the loop of RefreshPrices.
Writing(t) ==
    /\ tasks[t].op \in {"AddPosition", "AddPositionsBatch",
                        "RemovePosition", "RefreshPrices"}
    /\ tasks[t].pc \in {"merge", "append", "remove", "refresh", "update",
                        "save"}

Reading(t) ==
    /\ tasks[t].op \in {"GetPosition", "ListPositions",
                        "GetPortfolioSummary"}
    /\ tasks[t].pc = "reading"

\* C2: while AddPosition and AddPositionsBatch run concurrently on the
\* default portfolio, no ISIN is held by two of its positions.
C2_OnePositionPerISINConcurrent ==
    (\A t \in TaskIDs :
        tasks[t].op \in {"none", "AddPosition", "AddPositionsBatch"})
    => \A isin \in ISINs :
          Cardinality({i \in 1..Len(portfolio.Positions) :
              portfolio.Positions[i].Instrument.ISIN = isin}) <= 1

\* C3: no write use case is in progress on the default portfolio while
\* another write use case or a read use case is.
C3_ReadersWriterExclusion ==
    \A t, u \in TaskIDs :
        (t # u /\ Writing(t)) => ~(Writing(u) \/ Reading(u))

(***************************************************************************)
(* Claims on a cancelled, an empty and a repeating batch (SpecBatch).      *)
(***************************************************************************)
\* An entry of Failed whose error is or wraps the cancelled context's.
CancellationDerived(entry) ==
    \/ entry.Error \in {"context canceled",
                        "failed to get quote: context canceled"}
    \/ /\ entry.Error = "failed to save portfolio"
       /\ batch.saveCause = "context canceled"

\* C11: a batch whose context was cancelled while it ran returns a result
\* in which every ISIN still in work at the cancellation is in Failed with
\* an error derived from the cancellation.
C11_CancelledFailsUnfinished ==
    (batch.pc = "done" /\ batch.cancelled) =>
        \A isin \in batch.pending :
           \E i \in 1..Len(batch.Failed) :
              /\ batch.Failed[i].ISIN = isin
              /\ CancellationDerived(batch.Failed[i])

\* C12: the result a batch returns reports every request that did not
\* reach Successful as an entry of Failed.
C12_BatchNeverFailsAsAWhole ==
    batch.pc = "done" =>
       \A isin \in ISINsOf(batch.requests) :
          isin \in ISINsOf(batch.Successful) \cup ISINsOf(batch.Failed)

\* C13: Save is not called before the commit stage, and the commit stage
\* calls it once when Successful holds an entry and not at all otherwise.
C13_SaveOnceIffSuccessful ==
    [][IF batch.pc = "idle"
       THEN batch'.saves = 0
       ELSE batch'.saves = batch.saves
               + (IF /\ batch.pc = "commit"
                     /\ batch'.pc = "done"
                     /\ Len(batch.Successful) > 0
                  THEN 1 ELSE 0)]_vars

\* A batch that has returned after one Save, with one request assembled
\* and another failed.
C13_Witness ==
    /\ batch.pc = "done"
    /\ batch.saves = 1
    /\ Len(batch.assembled) = 1
    /\ Len(batch.Failed) = 1

\* The last request of a list that names an ISIN.
LastOccurrence(requests, isin) ==
    LET at == {i \in 1..Len(requests) : requests[i].ISIN = isin}
    IN  requests[CHOOSE i \in at : \A j \in at : j <= i]

\* The amount invested in an ISIN by a list of positions, zero when the
\* list holds no position of it.
InvestedIn(positions, isin) ==
    IF HasISIN(positions, isin)
    THEN positions[SlotOfISIN(positions, isin)].InvestedAmount
    ELSE Zero

\* C19: an ISIN requested several times in a batch reaches Successful at
\* most once, with the amount and the currency of its last request, and
\* the portfolio's amount for that ISIN grows by that amount once.
C19_LastOccurrenceWins ==
    batch.pc = "done" =>
        \A i \in 1..Len(batch.assembled) :
           LET isin == batch.assembled[i].ISIN
               last == LastOccurrence(batch.requests, isin)
               pos  == batch.assembled[i].Position
           IN  Asked(batch.requests, isin) >= 2 =>
                  /\ Equal(pos.InvestedAmount,
                           NewDecimalFromInt(last.InvestedAmount))
                  /\ pos.InvestedCurrency = last.Currency
                  /\ Occurrences(batch.assembled, isin) = 1
                  /\ Equal(InvestedIn(portfolio.Positions, isin),
                           Add(InvestedIn(batch.before, isin),
                               NewDecimalFromInt(last.InvestedAmount)))

\* A batch that asked for one ISIN twice, with different amounts and
\* currencies, and assembled it.
C19_Witness ==
    /\ batch.pc = "done"
    /\ Len(batch.requests) = 2
    /\ batch.requests[1].ISIN = batch.requests[2].ISIN
    /\ batch.requests[1].InvestedAmount # batch.requests[2].InvestedAmount
    /\ batch.requests[1].Currency # batch.requests[2].Currency
    /\ Len(batch.assembled) = 1

\* C20: a batch with no request returns empty Successful and Failed lists
\* without a call to the provider, a change of the portfolio or a Save.
C20_EmptyBatchNoEffect ==
    (batch.pc = "done" /\ Len(batch.requests) = 0) =>
        /\ batch.Successful = <<>>
        /\ batch.Failed = <<>>
        /\ batch.asked = 0
        /\ batch.saves = 0
        /\ portfolio.Positions = batch.before
        /\ db = SaveRows(EmptyDB, portfolio)

\* An empty batch that has returned on a service holding one position.
C20_Witness ==
    /\ batch.pc = "done"
    /\ Len(batch.requests) = 0
    /\ Len(portfolio.Positions) = 1

(***************************************************************************)
(* Claims on the use cases' steps (SpecService).                           *)
(***************************************************************************)
\* The first position whose quote fails, 0 when every quote is given.
FirstFailure(quotes) ==
    IF \E i \in DOMAIN quotes : quotes[i] = 0
    THEN CHOOSE i \in DOMAIN quotes :
            /\ quotes[i] = 0
            /\ \A j \in 1..(i - 1) : quotes[j] # 0
    ELSE 0

\* C14: RefreshPrices updates the positions in order.  At the first quote
\* that fails it returns that error with the later positions untouched,
\* Save not called and the repository unchanged; when no quote fails it
\* calls Save once, with every position carrying its quoted price.
C14_RefreshPricesSavesOnceAtEnd ==
    [][(calls' = calls + 1 /\ call'.op = "RefreshPrices") =>
        LET quotes == call'.arg
            k == FirstFailure(quotes)
            n == Len(portfolio.Positions)
            priced(j) == Equal(portfolio'.Positions[j].CurrentPrice,
                               NewDecimalFromInt(quotes[j]))
        IN  /\ Len(portfolio'.Positions) = n
            /\ IF k # 0
               THEN /\ call'.err = "failed to get quote"
                    /\ call'.saves = 0
                    /\ db' = db
                    /\ \A j \in 1..(k - 1) : priced(j)
                    /\ \A j \in k..n :
                          portfolio'.Positions[j] = portfolio.Positions[j]
               ELSE /\ call'.err \in {"nil", "failed to save portfolio"}
                    /\ call'.saves = 1
                    /\ \A j \in 1..n : priced(j)
                    /\ call'.err = "nil" =>
                          \A j \in 1..n :
                             \E row \in FindByID(db', portfolio.ID).Positions :
                                /\ row.ID = portfolio.Positions[j].ID
                                /\ Equal(row.CurrentPrice,
                                         NewDecimalFromInt(quotes[j]))
       ]_vars

\* A refresh of two positions that stopped at the second quote.
C14_Witness ==
    /\ call.op = "RefreshPrices"
    /\ Len(call.before) = 2
    /\ FirstFailure(call.arg) = 2
    /\ call.saves = 0

\* The number of steps AddPosition has run when it returns an error.
StepsRunAt(err) ==
    CASE err = "failed to find instrument" -> 1
      [] err = "failed to get quote" -> 3
      [] err = "failed to parse quote price" -> 4
      [] err = "failed to update position price" -> 5
      [] err = "failed to add position" -> 6
      [] err = "failed to save portfolio" -> 7

\* C18: an AddPosition that returns an error returns no position and has
\* run the steps up to the failed one only, with no Save, an unchanged
\* repository and an unchanged portfolio unless Save is the step that
\* failed.
C18_AddPositionAbortsOnFailure ==
    [][(calls' = calls + 1 /\ call'.op = "AddPosition"
                           /\ call'.err # "nil") =>
        LET ran == StepsRunAt(call'.err)
        IN  /\ call'.pos = <<>>
            /\ call'.steps = SubSeq(AddPositionSteps, 1, ran)
            /\ db' = db
            /\ ran < 7 => call'.saves = 0
            /\ ran < 7 => portfolio' = portfolio
            /\ ran < 2 => nextId' = nextId
       ]_vars

\* An AddPosition the aggregate rejected, on a service holding a position.
C18_Witness ==
    /\ call.op = "AddPosition"
    /\ call.err = "failed to add position"
    /\ Len(call.before) = 1

(***************************************************************************)
(* Claims on the price-refresh loop (SpecUpdater, SpecUpdaterLive).        *)
(***************************************************************************)
\* C15: Start returns at last once Stop has been called, and returns at
\* last once its context has been cancelled.
C15_StartReturns ==
    /\ tasks.stopped ~> tasks.pc = "returned"
    /\ tasks.ctxDone ~> tasks.pc = "returned"

\* Start has returned after Stop, its context alive, having refreshed.
C15_Witness ==
    /\ tasks.pc = "returned"
    /\ tasks.stopped
    /\ ~tasks.ctxDone
    /\ tasks.refreshes >= 1

\* C16: a Stop called while Start is blocked in the select makes the
\* select take the stop case; from there Start calls RefreshPrices no
\* more and returns, whether or not another tick fires.
C16_StopInterruptsWait ==
    /\ [][/\ (tasks.pc = "waiting" /\ ~tasks.stopped /\ tasks'.stopped)
                => tasks'.pc = "stop"
          /\ tasks.pc = "stop"
                => /\ tasks'.pc \in {"stop", "returned"}
                   /\ tasks'.refreshes = tasks.refreshes]_vars
    /\ tasks.pc = "stop" ~> tasks.pc = "returned"

\* Start has returned after a Stop that found it blocked, before the
\* last tick of the ticker.
C16_Witness ==
    /\ tasks.pc = "returned"
    /\ tasks.stopAt = "waiting"
    /\ ~tasks.ctxDone
    /\ tasks.ticks < MaxTicks

\* C17: the return of RefreshPrices, with an error or without, takes the
\* loop back to its select, and after a failed refresh a tick the select
\* has or takes leads to the next call of RefreshPrices unless Stop or
\* the cancellation comes first.
C17_RefreshErrorKeepsLoop ==
    /\ [][(tasks.pc = "refreshing" /\ tasks'.pc # "refreshing")
             => tasks'.pc = "select"]_vars
    /\ (/\ tasks.lastErr = "refresh failed"
        /\ \/ tasks.pc = "tick"
           \/ tasks.pc \in {"select", "waiting"} /\ tasks.tick)
         ~> (tasks.pc = "refreshing" \/ tasks.stopped \/ tasks.ctxDone)

\* RefreshPrices is called again after it has returned an error.
C17_Witness ==
    /\ tasks.pc = "refreshing"
    /\ tasks.lastErr = "refresh failed"
    /\ tasks.refreshes >= 2
    /\ ~tasks.stopped
    /\ ~tasks.ctxDone

(***************************************************************************)
(* Claims on the stored rows (SpecRepo).                                   *)
(***************************************************************************)
\* C21: a row of instruments, once committed, stays as it is: no step
\* changes or removes it, and no statement of a Save changes a row the
\* transaction sees, whatever symbol and name the saved position's
\* instrument carries for that ISIN.
C21_InstrumentRowImmutable ==
    [][/\ \A r \in db.instruments : r \in db'.instruments
       /\ (tx.pc # "none" /\ tx'.pc # "none") =>
             \A r \in tx.work.instruments : r \in tx'.work.instruments
       /\ \A r1, r2 \in db'.instruments : r1.isin = r2.isin => r1 = r2
      ]_vars

\* A Save has committed a position whose instrument has the ISIN of a
\* stored row and another symbol.
C21_Witness ==
    /\ call.op = "Save"
    /\ call.err = "nil"
    /\ Len(call.arg.Positions) = 1
    /\ call.arg.Positions[1].Instrument.Symbol = "AAPL"
    /\ \E r \in db.instruments : r.isin = "US123" /\ r.symbol = "SYM"

\* C22: a Save that commits leaves the rows a second Save of the same
\* portfolio would leave: the rows of its statements run once more over
\* the committed rows are the committed rows.
C22_SaveTwiceIsSaveOnce ==
    [][(tx.pc = "commit" /\ tx'.pc = "none" /\ call'.err = "nil") =>
          /\ db' = SaveRows(db, call'.arg)
          /\ SaveRows(db', call'.arg) = db'
      ]_vars

\* The second of two Saves of one portfolio of two positions has
\* committed and changed no row.
C22_Witness ==
    /\ call.op = "Save"
    /\ call.err = "nil"
    /\ calls = 2
    /\ Len(call.arg.Positions) = 2
    /\ call.before = db

\* C23: Migrate run on a database whose tables exist (and, with goose,
\* whose migration is recorded) returns no error and changes nothing, in
\* either dialect.
C23_MigrateTwiceIsNoOp ==
    [][(call' # call /\ call'.op = "Migrate"
                     /\ db.schema.tables = Tables) =>
          /\ call'.err = "nil"
          /\ db' = db
      ]_vars

\* Migrate has run again on an Oracle database that holds rows.
C23_Witness ==
    /\ call.op = "Migrate"
    /\ call.err = "nil"
    /\ call.before.schema.tables = Tables
    /\ db.schema.dialect = "oracle"
    /\ db.positions # {}

\* C24: a Delete of an id the repository does not hold leaves the stored
\* rows as they were and, unless the database itself fails, returns no
\* error, in the SQL and in the in-memory implementation.
C24_DeleteAbsentIsNoError ==
    (/\ call.op = "Delete"
     /\ \A r \in call.before.portfolios : r.id # call.arg) =>
        /\ db = call.before
        /\ call.err \in {"nil", "failed to delete"}

(***************************************************************************)
(* Claims on the order of the positions (SpecDomain).                      *)
(***************************************************************************)
\* The slots of a list whose position has the id or the non-empty ISIN of
\* a given position.
SlotsLike(positions, pos) ==
    {i \in 1..Len(positions) :
        \/ positions[i].ID = pos.ID
        \/ /\ positions[i].Instrument.ISIN = pos.Instrument.ISIN
           /\ pos.Instrument.ISIN # ""}

\* C25: AddPosition that merges keeps every position in its slot and
\* changes the merged one only; AddPosition of a new position appends it
\* to the positions held; RemovePosition(id) takes out the one position
\* of that id and keeps the others in their order; a call that fails
\* leaves the list as it was.
C25_OrderPreserved ==
    /\ (call.op = "AddPosition" /\ call.err = "nil") =>
          IF SlotsLike(call.before, call.arg) # {}
          THEN /\ Len(portfolio.Positions) = Len(call.before)
               /\ \A j \in 1..Len(call.before) :
                     /\ portfolio.Positions[j].ID = call.before[j].ID
                     /\ portfolio.Positions[j].Instrument
                          = call.before[j].Instrument
               /\ \E i \in SlotsLike(call.before, call.arg) :
                     \A j \in 1..Len(call.before) :
                        j # i => portfolio.Positions[j] = call.before[j]
          ELSE portfolio.Positions = Append(call.before, call.arg)
    /\ (call.op = "RemovePosition" /\ call.err = "nil") =>
          \E i \in 1..Len(call.before) :
             /\ call.before[i].ID = call.arg
             /\ portfolio.Positions
                  = SubSeq(call.before, 1, i - 1)
                    \o SubSeq(call.before, i + 1, Len(call.before))
    /\ (call.op \in {"AddPosition", "RemovePosition"}
          /\ call.err # "nil") => portfolio.Positions = call.before

\* The first of three positions has been removed.
C25_Witness ==
    /\ call.op = "RemovePosition"
    /\ call.err = "nil"
    /\ Len(call.before) = 3
    /\ call.before[1].ID = call.arg

(***************************************************************************)
(* Claims on the service and its repository (SpecService).                 *)
(***************************************************************************)
\* C26: when AddPosition, RemovePosition or RefreshPrices returns an
\* error, the positions of the in-memory default portfolio are those
\* from before the call.
C26_ErrorLeavesPortfolioUnchanged ==
    (/\ call.op \in {"AddPosition", "RemovePosition", "RefreshPrices"}
     /\ call.err # "nil") =>
        portfolio.Positions = call.before

\* C27: after a RemovePosition(id) that returned no error, FindByID of
\* the default portfolio returns no position of that id.
C27_RemovalIsDurable ==
    (call.op = "RemovePosition" /\ call.err = "nil") =>
        \A pos \in FindByID(db, portfolio.ID).Positions :
           pos.ID # call.arg

\* C28: the position a successful AddPosition returns is held by the
\* default portfolio under the returned id, with the returned
\* InvestedAmount and Quantity, whether it was appended or merged.
C28_ReturnedPositionIsHeld ==
    (call.op = "AddPosition" /\ call.err = "nil") =>
        LET returned == call.pos[1]
            i == IndexOfID(portfolio.Positions, returned.ID)
        IN  /\ i # 0
            /\ Equal(portfolio.Positions[i].InvestedAmount,
                     returned.InvestedAmount)
            /\ Equal(portfolio.Positions[i].Quantity, returned.Quantity)

\* C29: a service constructed over the repository of an earlier service
\* holds, and so lists, the positions persisted for the earlier service's
\* default portfolio.
C29_RestartListsPersisted ==
    (/\ call.op = "NewPortfolioService"
     /\ call.err = "nil"
     /\ call.id # "") =>
        IdsAndISINs(Range(portfolio.Positions))
          = IdsAndISINs(FindByID(db, call.id).Positions)

(***************************************************************************)
(* Claims on failed quotes in a batch (SpecBatch).                         *)
(***************************************************************************)
\* C30: when the quote of a symbol fails, every ISIN that was pending
\* when the quotes were asked and whose instrument carries that symbol
\* is in Failed of the result.
C30_QuoteFailureFailsEveryISIN ==
    batch.pc = "done" =>
        \A symbol \in batch.quoteErrors :
           \A isin \in batch.quotePending :
              (/\ isin \in DOMAIN batch.instruments
               /\ batch.instruments[isin].Symbol = symbol)
                 => isin \in ISINsOf(batch.Failed)

(***************************************************************************)
(* Claims on the concurrent fallback stages (SpecFan).                     *)
(***************************************************************************)
FanWorkers == 1..Len(tasks.workers)

\* C31: resultChan is never closed while a spawned worker has yet to
\* send; the collector receives each worker's result at most once at any
\* time and exactly once by the return; the stage returns only after
\* every worker spawned, one per input, has completed.
C31_ClosedAfterAllSent ==
    /\ tasks.closed =>
          \A w \in FanWorkers : tasks.workers[w].pc \in {"exit", "done"}
    /\ \A w \in FanWorkers :
          /\ tasks.workers[w].pc # "panicked"
          /\ tasks.received[w] <= 1
          /\ tasks.received[w] = 1 =>
                tasks.workers[w].pc \in {"exit", "done"}
    /\ tasks.pc = "returned" =>
          /\ Len(tasks.workers) = Len(tasks.inputs)
          /\ \A w \in FanWorkers :
                tasks.workers[w].pc = "done" /\ tasks.received[w] = 1
          /\ tasks.found \cup tasks.errors = Range(tasks.inputs)

\* A stage of three workers has returned, some with a value and some
\* with an error.
C31_Witness ==
    /\ tasks.pc = "returned"
    /\ Len(tasks.inputs) = 3
    /\ tasks.errors # {}
    /\ tasks.found # {}

\* C32: the capacity of resultChan is the number of workers, so a worker
\* at its send always finds room in the buffer, however many results the
\* collector has yet to take.
C32_SendNeverBlocks ==
    /\ tasks.pc # "idle" => tasks.cap = Len(tasks.inputs)
    /\ \A w \in FanWorkers :
          tasks.workers[w].pc = "send" =>
             ~tasks.closed /\ Len(tasks.chan) < tasks.cap

\* A worker is at its send while the results of all the others are in
\* the buffer and the collector has taken none.
C32_Witness ==
    /\ Len(tasks.inputs) >= 2
    /\ Len(tasks.chan) = Len(tasks.inputs) - 1
    /\ \E w \in FanWorkers : tasks.workers[w].pc = "send"
    /\ \A w \in FanWorkers : tasks.received[w] = 0

(***************************************************************************)
(* Claims on concurrent Save transactions (SpecUpsert).                    *)
(***************************************************************************)
\* C33: two Save transactions that upsert the same previously absent key
\* (instrument ISIN, portfolio id or position id) at the same time both
\* complete without a duplicate-key failure, and the key has exactly one
\* row afterwards, in both dialects.
C33_ConcurrentUpsertsSucceed ==
    /\ \A t \in TaskIDs : tasks[t].err = "nil"
    /\ \A r1, r2 \in db.instruments : r1.isin = r2.isin => r1 = r2
    /\ \A r1, r2 \in db.portfolios : r1.id = r2.id => r1 = r2
    /\ \A r1, r2 \in db.positions : r1.id = r2.id => r1 = r2

(***************************************************************************)
(* Claims on RefreshPrices beside other use cases (SpecConc).              *)
(***************************************************************************)
\* C34: when a round of RefreshPrices writes a quoted price, the position
\* written to carries the symbol the quote was asked for, also when
\* AddPosition or RemovePosition ran since the quote was asked.
C34_QuoteAppliedToItsSymbol ==
    [][\A t \in TaskIDs :
         (/\ tasks[t].op = "RefreshPrices"
          /\ tasks[t].pc = "update"
          /\ tasks'[t] # tasks[t])
         => \A i \in 1..Len(portfolio.Positions) :
               portfolio'.Positions[i] # portfolio.Positions[i] =>
                  portfolio.Positions[i].Instrument.Symbol
                     = Head(tasks[t].todo)]_vars

\* C35: RefreshPrices beside RemovePosition never takes a position at an
\* index beyond the current end of the positions: it does not panic.
C35_RefreshIndexInRange ==
    \A t \in TaskIDs :
       ~(tasks[t].op = "RefreshPrices" /\ tasks[t].pc = "panicked")

(***************************************************************************)
(* Claims on the loop after Stop (SpecUpdater).                            *)
(***************************************************************************)
\* C36: once Stop has returned or the context has been cancelled, the
\* loop of Start calls RefreshPrices no more.
C36_NoRefreshAfterStop == tasks.late = 0

(***************************************************************************)
(* Claims on a batch whose commit failed (SpecBatch).                      *)
(***************************************************************************)
\* The ids, invested amounts, quantities and prices of positions.
Holdings(positions) ==
    [i \in 1..Len(positions) |->
        <<positions[i].ID, positions[i].InvestedAmount,
          positions[i].Quantity, positions[i].CurrentPrice>>]

\* C37: a batch whose Save failed leaves the positions of the default
\* portfolio, their ids, invested amounts, quantities and prices, as they
\* were before the batch.
C37_FailedCommitLeavesPortfolio ==
    (batch.pc = "done" /\ batch.saveErr) =>
        Holdings(portfolio.Positions) = Holdings(batch.before)

(***************************************************************************)
(* Claims on the validity of held positions (SpecDomain).                  *)
(***************************************************************************)
\* C38: every position the portfolio holds satisfies IsValid, in
\* particular has a non-zero InvestedAmount, after successful calls of
\* AddPosition, whether they appended or merged.
C38_HeldPositionsValid ==
    \A i \in 1..Len(portfolio.Positions) :
        PositionIsValid(portfolio.Positions[i])

====
